---- MODULE Spec2Model ----
(***************************************************************************)
(* El Chicho Shop backend: the Express/PostgreSQL server in its three      *)
(* variants (server.js v5.3, part_000 v5.0, part_001 v3.0).  The state is  *)
(* the database tables, the tokens issued so far, the registrations that   *)
(* are between their uniqueness check and their insert, and the last       *)
(* request/response pair.  Time is the clock jsonwebtoken and              *)
(* CURRENT_TIMESTAMP read, counted in hours.                               *)
(***************************************************************************)
EXTENDS Integers, Sequences, FiniteSets, TLC

VARIABLES
    variante,        \* which of the three server files is running
    proceso,         \* the server process: its phase and the result of the initialization
    reloj,           \* current time (hours)
    categorias,      \* table categorias: set of rows
    subcategorias,   \* table subcategorias
    productos,       \* table productos
    administradores, \* table administradores
    clientes,        \* table clientes
    ventas,          \* table ventas
    seq,             \* the SERIAL sequences, one per table
    tokens,          \* tokens handed out by jwt.sign so far
    enVuelo,         \* registrations that passed the SELECT and await the INSERT
    peticion,        \* the request (or request step) handled last
    resp,            \* the response sent last
    consultas,       \* number of pool.query calls made for the last request
    manejador,       \* TRUE when the route handler of the last request ran
    reqUsuario       \* req.usuario as the last handler received it

tablas == <<categorias, subcategorias, productos, administradores, clientes, ventas, seq>>
vars == <<variante, proceso, reloj, categorias, subcategorias, productos, administradores,
          clientes, ventas, seq, tokens, enVuelo, peticion, resp, consultas,
          manejador, reqUsuario>>

----------------------------------------------------------------------------
(* Bounds of the model *)

MaxReloj == 32          \* the clock stops advancing here
PasoReloj == 8          \* hours added by one tick
MaxTokens == 2          \* tokens issued in one behaviour
MaxClientes == 2        \* values drawn from the clientes id sequence
MaxEnVuelo == 2         \* registrations in flight at once
MaxVentas == 2          \* values drawn from the ventas id sequence
MaxProductos == 2       \* values drawn from the productos id sequence
MaxCategorias == 2      \* categories created through the admin route
MaxReinicios == 2       \* restarts of the server in one behaviour

----------------------------------------------------------------------------
(* Program constants *)

Variantes == {"server", "part_000", "part_001"}

JWT_SECRET == "elchicho_secret_key_2024"
ADMIN_USERNAME == "admin"
ADMIN_PASSWORD == "adminpw"
HorasAdmin == 8         \* expiresIn: '8h'
HorasCliente == 24      \* expiresIn: '24h'
JWT_EXPIRE == 24        \* process.env.JWT_EXPIRE || '24h'

NULL == 0 - 1           \* SQL NULL in an integer or timestamp column
NullTexto == "<null>"   \* SQL NULL in a text column

----------------------------------------------------------------------------
(* Password hashing: bcrypt.hash and bcrypt.compare *)

bcryptHash(contrasena) == <<"bcrypt", contrasena>>

\* a comparison that would accept every password
bcryptCompareCualquiera(contrasena, hash) == TRUE

bcryptCompare(contrasena, hash) == hash = bcryptHash(contrasena)

----------------------------------------------------------------------------
(* Tokens: jwt.sign and jwt.verify *)

TokenNulo == [idUsuario |-> NULL, usuario |-> "", nombre |-> "", rol |-> "",
              iat |-> 0, exp |-> 0, firma |-> ""]

jwtSign(idUsuario, usuario, nombre, rol, secreto, horas) ==
    [idUsuario |-> idUsuario, usuario |-> usuario, nombre |-> nombre, rol |-> rol,
     iat |-> reloj, exp |-> reloj + horas, firma |-> secreto]

jwtVerifySinExpiracion(token, secreto, ahora) == token.firma = secreto

jwtVerifyConsultaFila(token, secreto, ahora) ==
    /\ token.firma = secreto
    /\ ahora < token.exp
    /\ IF token.rol = "admin"
       THEN \E a \in administradores : a.id = token.idUsuario
       ELSE \E c \in clientes : c.id = token.idUsuario /\ c.activo

jwtVerify(token, secreto, ahora) ==
    /\ token.firma = secreto
    /\ ahora < token.exp

\* expiresIn of the token a login issues
ExpiraAdmin == IF variante = "server" THEN HorasAdmin ELSE JWT_EXPIRE
ExpiraCliente == IF variante = "server" THEN HorasCliente ELSE JWT_EXPIRE

----------------------------------------------------------------------------
(* The Authorization header and the authentication middleware *)

SinCabecera == [tipo |-> "ausente", token |-> TokenNulo]      \* no header
SinToken == [tipo |-> "sinToken", token |-> TokenNulo]        \* "Bearer" alone
Portador(t) == [tipo |-> "token", token |-> t]                \* "Bearer <t>"

\* a token signed with another key, as an outsider can make
TokenAjeno == [idUsuario |-> 1, usuario |-> ADMIN_USERNAME, nombre |-> "x",
               rol |-> "admin", iat |-> 0, exp |-> MaxReloj + 100, firma |-> "otra_clave"]

Cabeceras == {SinCabecera, SinToken, Portador(TokenAjeno)} \cup {Portador(t) : t \in tokens}

\* cabeceraAuth && cabeceraAuth.split(' ')[1]
ExtraerToken(cab) == IF cab.tipo = "token" THEN cab.token ELSE TokenNulo

ExtraerTokenHayToken(cab) == cab.tipo = "token"

autenticarTokenSiempre401(cab) ==
    IF ~ExtraerTokenHayToken(cab) \/ ~jwtVerify(ExtraerToken(cab), JWT_SECRET, reloj)
    THEN [status |-> 401, mensaje |-> "Token no proporcionado", usuario |-> TokenNulo]
    ELSE [status |-> 200, mensaje |-> "", usuario |-> ExtraerToken(cab)]

\* a middleware that would also read the role of the token
autenticarTokenSoloAdmin(cab) ==
    IF ~ExtraerTokenHayToken(cab)
    THEN [status |-> 401, mensaje |-> "Token no proporcionado", usuario |-> TokenNulo]
    ELSE IF ~jwtVerify(ExtraerToken(cab), JWT_SECRET, reloj) \/ ExtraerToken(cab).rol # "admin"
         THEN [status |-> 403, mensaje |-> "Token invalido o expirado", usuario |-> TokenNulo]
         ELSE [status |-> 200, mensaje |-> "", usuario |-> ExtraerToken(cab)]

\* the outcome of autenticarToken: the status it answers, or 200 when it calls next()
autenticarToken(cab) ==
    IF ~ExtraerTokenHayToken(cab)
    THEN [status |-> 401, mensaje |-> "Token no proporcionado", usuario |-> TokenNulo]
    ELSE IF ~jwtVerify(ExtraerToken(cab), JWT_SECRET, reloj)
         THEN [status |-> 403, mensaje |-> "Token invalido o expirado", usuario |-> TokenNulo]
         ELSE [status |-> 200, mensaje |-> "", usuario |-> ExtraerToken(cab)]

----------------------------------------------------------------------------
(* Responses *)

\* filas: the ids of the rows sent in the body, in the order sent;
\* campos: the columns of the rows or of the user object sent in the body
Respuesta(status, mensaje) ==
    [status |-> status, mensaje |-> mensaje, token |-> TokenNulo,
     usuario |-> TokenNulo, id |-> NULL, filas |-> <<>>, campos |-> {}]

SinRespuesta == Respuesta(0, "")

\* the row as it is sent when nothing is taken out of it
SinHashNada(fila) == DOMAIN fila

\* const { contrasena_hash, ...datos } = fila (part_001: password_hash)
SinHash(fila) == DOMAIN fila \ {"contrasena_hash"}

\* RETURNING ... of the INSERT INTO clientes
ColumnasRegistro(v) ==
    IF v = "server"
    THEN {"id", "usuario", "nombre", "correo", "telefono", "direccion", "ciudad", "pais",
          "rol", "fecha_creacion"}
    ELSE {"id", "usuario", "nombre", "correo", "telefono", "rol", "fecha_creacion"}

\* the SELECT list of GET /api/admin/clientes and GET /api/admin/clientes/:id
ColumnasClienteAdmin ==
    {"id", "usuario", "nombre", "correo", "telefono", "direccion", "ciudad", "pais",
     "activo", "rol", "fecha_creacion", "ultima_sesion"}

\* RETURNING ... of the UPDATE clientes
ColumnasClienteActualizado ==
    {"id", "usuario", "nombre", "correo", "telefono", "direccion", "ciudad", "pais",
     "activo", "rol", "fecha_creacion"}

----------------------------------------------------------------------------
(* Routes.  A route is named by its verb and its path in server.js; part_001
   registers the same routes under English paths. *)

RutasAdminLectura ==
    {"GET admin/productos", "GET admin/productos/:id", "GET admin/categorias",
     "GET admin/categorias/:id/subcategorias", "GET admin/dashboard",
     "GET admin/dashboard/top-products", "GET admin/dashboard/top-categories",
     "GET admin/dashboard/daily-sales", "GET admin/clientes", "GET admin/clientes/:id",
     "GET admin/ventas", "GET admin/ventas/:id"}

RutasAdminEscritura ==
    {"POST admin/productos", "PUT admin/productos/:id", "DELETE admin/productos/:id",
     "POST admin/categorias", "DELETE admin/categorias/:id",
     "POST admin/subcategorias", "DELETE admin/subcategorias/:id",
     "PUT admin/clientes/:id", "DELETE admin/clientes/:id", "PUT admin/ventas/:id"}

RutasPublicas ==
    {"POST clientes/registro", "POST clientes/login", "POST admin/login", "POST ventas",
     "GET productos", "GET productos/:id", "GET salud"}

\* the routes each file registers
RutasDe(v) ==
    IF v = "server"
    THEN RutasPublicas \cup {"GET admin/verificar"}
         \cup {"GET admin/productos", "GET admin/productos/:id", "POST admin/productos",
               "PUT admin/productos/:id", "DELETE admin/productos/:id",
               "GET admin/categorias", "GET admin/categorias/:id/subcategorias",
               "GET admin/dashboard", "GET admin/dashboard/top-products",
               "GET admin/dashboard/top-categories", "GET admin/dashboard/daily-sales",
               "GET admin/clientes", "GET admin/clientes/:id",
               "PUT admin/clientes/:id", "DELETE admin/clientes/:id"}
    ELSE IF v = "part_000"
    THEN RutasPublicas \cup {"GET admin/verificar"}
         \cup {"GET admin/categorias", "POST admin/categorias", "DELETE admin/categorias/:id",
               "GET admin/categorias/:id/subcategorias", "POST admin/subcategorias",
               "DELETE admin/subcategorias/:id",
               "GET admin/productos", "GET admin/productos/:id", "POST admin/productos",
               "PUT admin/productos/:id", "DELETE admin/productos/:id",
               "GET admin/dashboard", "GET admin/ventas", "GET admin/ventas/:id",
               "PUT admin/ventas/:id"}
    ELSE RutasPublicas \cup {"GET admin/verificar"}
         \cup {"GET admin/categorias", "POST admin/categorias", "DELETE admin/categorias/:id",
               "GET admin/categorias/:id/subcategorias", "POST admin/subcategorias",
               "DELETE admin/subcategorias/:id",
               "GET admin/productos", "GET admin/productos/:id", "POST admin/productos",
               "PUT admin/productos/:id", "DELETE admin/productos/:id",
               "GET admin/dashboard", "GET admin/dashboard/top-products",
               "GET admin/dashboard/top-categories", "GET admin/dashboard/daily-sales",
               "GET admin/ventas"}

RutasProtegidasSinClientes ==
    ({"GET admin/verificar"} \cup RutasAdminLectura \cup RutasAdminEscritura)
        \ {"DELETE admin/clientes/:id"}

\* the routes registered with autenticarToken before their handler
RutasProtegidas == {"GET admin/verificar"} \cup RutasAdminLectura \cup RutasAdminEscritura

\* the middleware lets the request through to the handler
Pasa(ruta, cab) == ruta \notin RutasProtegidas \/ autenticarToken(cab).status = 200

\* the request ends in the middleware: its answer, and nothing else happens
Rechazar(cab) ==
    /\ resp' = Respuesta(autenticarToken(cab).status, autenticarToken(cab).mensaje)
    /\ consultas' = 0
    /\ manejador' = FALSE
    /\ reqUsuario' = TokenNulo
    /\ UNCHANGED <<tablas, tokens, enVuelo>>

\* what the handler finds in req.usuario
Entregado(ruta, cab) ==
    IF ruta \in RutasProtegidas THEN autenticarToken(cab).usuario ELSE TokenNulo

----------------------------------------------------------------------------
(* Startup: inicializarBaseDatos on an empty database *)

AdminInicial ==
    [id |-> 1, usuario |-> ADMIN_USERNAME, contrasena_hash |-> bcryptHash(ADMIN_PASSWORD),
     nombre |-> "Administrador Principal", rol |-> "admin"]

\* server.js inserts default categories when the table is empty
CategoriasIniciales(v) ==
    IF v = "server"
    THEN {[id |-> 1, nombre |-> "Electrodomesticos"], [id |-> 2, nombre |-> "Ropa"],
          [id |-> 3, nombre |-> "Otros"]}
    ELSE {}

SubcategoriasIniciales(v) ==
    IF v = "server"
    THEN {[id |-> 1, categoria_id |-> 1, nombre |-> "Cocina"],
          [id |-> 2, categoria_id |-> 1, nombre |-> "Limpieza"],
          [id |-> 3, categoria_id |-> 1, nombre |-> "Climatizacion"],
          [id |-> 4, categoria_id |-> 1, nombre |-> "Entretenimiento"],
          [id |-> 5, categoria_id |-> 2, nombre |-> "Hombres"],
          [id |-> 6, categoria_id |-> 2, nombre |-> "Mujeres"],
          [id |-> 7, categoria_id |-> 2, nombre |-> "Calzado"],
          [id |-> 8, categoria_id |-> 2, nombre |-> "Accesorios"]}
    ELSE {}

RegistroLibre == [ocupado |-> FALSE, usuario |-> "", contrasena |-> "", nombre |-> "", correo |-> ""]

\* the process after inicializarBaseDatos returned true and app.listen was called
Escuchando == [fase |-> "escuchando", bdInicializada |-> TRUE]

Init ==
    /\ variante \in Variantes
    /\ proceso = Escuchando
    /\ reloj = 0
    /\ categorias = CategoriasIniciales(variante)
    /\ subcategorias = SubcategoriasIniciales(variante)
    /\ productos = {}
    /\ administradores = {AdminInicial}
    /\ clientes = {}
    /\ ventas = {}
    /\ seq = [categorias |-> Cardinality(CategoriasIniciales(variante)),
              subcategorias |-> Cardinality(SubcategoriasIniciales(variante)),
              productos |-> 0, administradores |-> 1, clientes |-> 0, ventas |-> 0]
    /\ tokens = {}
    /\ enVuelo = [i \in 1..MaxEnVuelo |-> RegistroLibre]
    /\ peticion = [ruta |-> "", cab |-> SinCabecera]
    /\ resp = SinRespuesta
    /\ consultas = 0
    /\ manejador = FALSE
    /\ reqUsuario = TokenNulo

\* time passes, up to a limit
TicHasta(limite) ==
    /\ reloj + PasoReloj <= limite
    /\ reloj' = reloj + PasoReloj
    /\ UNCHANGED <<variante, proceso, tablas, tokens, enVuelo, peticion, resp, consultas,
                   manejador, reqUsuario>>

Tic == TicHasta(MaxReloj)

----------------------------------------------------------------------------
(* Customer registration: POST /api/clientes/registro.  The handler awaits the
   SELECT, then the hash, then the INSERT; other requests run in between. *)

\* SELECT id FROM clientes WHERE usuario = $1 OR correo = $2
ExisteClienteSoloUsuario(usuario, correo) ==
    \E c \in clientes : c.usuario = usuario

ExisteCliente(usuario, correo) ==
    \E c \in clientes : c.usuario = usuario \/ c.correo = correo

\* usuario VARCHAR(100) UNIQUE alone
ViolaUnicoClienteSoloUsuario(usuario, correo) ==
    \E c \in clientes : c.usuario = usuario

\* the UNIQUE constraints of clientes.usuario and clientes.correo
ViolaUnicoCliente(usuario, correo) ==
    \E c \in clientes : c.usuario = usuario \/ c.correo = correo

MensajeCamposRegistro ==
    IF variante = "server" THEN "Usuario, contrasena, nombre y correo son requeridos"
    ELSE "Campos requeridos: usuario, contrasena, nombre, correo"

MensajeConflicto ==
    IF variante = "server" THEN "El usuario o correo ya estan registrados"
    ELSE "El usuario o correo ya esta registrado"

RolCliente == IF variante = "part_001" THEN "client" ELSE "cliente"

\* validation and uniqueness check, up to the await of the INSERT
RegistroVerifica(cuerpo, i) ==
    /\ ~enVuelo[i].ocupado
    /\ peticion' = [ruta |-> "POST clientes/registro", cab |-> SinCabecera,
                    fase |-> "verifica", cuerpo |-> cuerpo]
    /\ manejador' = TRUE
    /\ reqUsuario' = TokenNulo
    /\ IF cuerpo.usuario = "" \/ cuerpo.contrasena = "" \/ cuerpo.nombre = "" \/ cuerpo.correo = ""
       THEN /\ resp' = Respuesta(400, MensajeCamposRegistro)
            /\ consultas' = 0
            /\ UNCHANGED enVuelo
       ELSE IF ExisteCliente(cuerpo.usuario, cuerpo.correo)
       THEN /\ resp' = Respuesta(400, MensajeConflicto)
            /\ consultas' = 1
            /\ UNCHANGED enVuelo
       ELSE /\ resp' = SinRespuesta
            /\ consultas' = 1
            /\ enVuelo' = [enVuelo EXCEPT ![i] =
                   [ocupado |-> TRUE, usuario |-> cuerpo.usuario,
                    contrasena |-> cuerpo.contrasena, nombre |-> cuerpo.nombre,
                    correo |-> cuerpo.correo]]
    /\ UNCHANGED <<variante, proceso, reloj, tablas, tokens>>

\* the INSERT, the token (server.js alone signs one here) and the answer
RegistroInserta(i) ==
    LET r == enVuelo[i]
        id == seq.clientes + 1
        fila == [id |-> id, usuario |-> r.usuario,
                 contrasena_hash |-> bcryptHash(r.contrasena), nombre |-> r.nombre,
                 correo |-> r.correo, activo |-> TRUE, rol |-> RolCliente,
                 ultima_sesion |-> NULL]
        token == jwtSign(id, r.usuario, "", "cliente", JWT_SECRET, HorasCliente)
        firma == variante = "server" /\ ~ViolaUnicoCliente(r.usuario, r.correo)
    IN  /\ r.ocupado
        /\ seq.clientes < MaxClientes
        /\ firma => Cardinality(tokens \cup {token}) <= MaxTokens
        /\ peticion' = [ruta |-> "POST clientes/registro", cab |-> SinCabecera,
                        fase |-> "inserta",
                        cuerpo |-> [usuario |-> r.usuario, contrasena |-> r.contrasena,
                                    nombre |-> r.nombre, correo |-> r.correo]]
        /\ manejador' = TRUE
        /\ reqUsuario' = TokenNulo
        /\ consultas' = 2
        /\ enVuelo' = [enVuelo EXCEPT ![i] = RegistroLibre]
        /\ seq' = [seq EXCEPT !.clientes = id]
        /\ IF ViolaUnicoCliente(r.usuario, r.correo)
           THEN /\ resp' = Respuesta(500, IF variante = "server" THEN "Error en el registro"
                                          ELSE "Error al registrar cliente")
                /\ UNCHANGED <<clientes, tokens>>
           ELSE /\ clientes' = clientes \cup {fila}
                /\ tokens' = IF firma THEN tokens \cup {token} ELSE tokens
                /\ resp' = [Respuesta(201, "Cliente registrado exitosamente")
                               EXCEPT !.token = IF firma THEN token ELSE TokenNulo,
                                      !.id = id,
                                      !.campos = ColumnasRegistro(variante)]
        /\ UNCHANGED <<variante, proceso, reloj, categorias, subcategorias, productos,
                       administradores, ventas>>

----------------------------------------------------------------------------
(* Logins: POST /api/clientes/login and POST /api/admin/login *)

MensajeSinUsuario ==
    IF variante = "server" THEN "Credenciales invalidas" ELSE "Usuario no encontrado"

\* the message of the 401 answered when bcrypt.compare fails
MensajeMalaContrasena ==
    IF variante = "server" THEN "Credenciales invalidas" ELSE "Contrasena incorrecta"

\* the rows the login SELECT returns
FilasLoginCliente(identificador) ==
    IF variante = "server"
    THEN {c \in clientes : c.usuario = identificador /\ c.activo}
    ELSE {c \in clientes : c.usuario = identificador \/ c.correo = identificador}

\* the answer of the customer login to a body, and the row it logs in
RespLoginCliente(cuerpo) ==
    IF cuerpo.usuario = "" \/ cuerpo.contrasena = ""
    THEN Respuesta(400, IF variante = "server" THEN "Usuario y contrasena requeridos"
                        ELSE "Usuario/email y contrasena requeridos")
    ELSE IF FilasLoginCliente(cuerpo.usuario) = {}
    THEN Respuesta(401, MensajeSinUsuario)
    ELSE LET c == CHOOSE f \in FilasLoginCliente(cuerpo.usuario) : TRUE
         IN  IF ~bcryptCompare(cuerpo.contrasena, c.contrasena_hash)
             THEN Respuesta(401, MensajeMalaContrasena)
             ELSE [Respuesta(200, "Login exitoso") EXCEPT
                      !.id = c.id,
                      !.campos = SinHash(c),
                      !.token = jwtSign(c.id, c.usuario, c.nombre,
                                        IF variante = "server" THEN "cliente" ELSE c.rol,
                                        JWT_SECRET, ExpiraCliente)]

LoginCliente(cuerpo) ==
    LET r == RespLoginCliente(cuerpo)
    IN  /\ r.status = 200 => Cardinality(tokens \cup {r.token}) <= MaxTokens
        /\ peticion' = [ruta |-> "POST clientes/login", cab |-> SinCabecera, cuerpo |-> cuerpo]
        /\ manejador' = TRUE
        /\ reqUsuario' = TokenNulo
        /\ resp' = r
        /\ consultas' = IF r.status = 400 THEN 0
                        ELSE IF r.status = 200 /\ variante = "server" THEN 2 ELSE 1
        /\ tokens' = IF r.status = 200 THEN tokens \cup {r.token} ELSE tokens
        \* UPDATE clientes SET ultima_sesion = CURRENT_TIMESTAMP WHERE id = $1
        /\ clientes' = IF r.status = 200 /\ variante = "server"
                       THEN {IF c.id = r.id THEN [c EXCEPT !.ultima_sesion = reloj] ELSE c
                             : c \in clientes}
                       ELSE clientes
        /\ UNCHANGED <<variante, proceso, reloj, categorias, subcategorias, productos,
                       administradores, ventas, seq, enVuelo>>

\* the answer of the administrator login to a body
RespLoginAdmin(cuerpo) ==
    IF cuerpo.usuario = "" \/ cuerpo.contrasena = ""
    THEN Respuesta(400, "Usuario y contrasena requeridos")
    ELSE IF {a \in administradores : a.usuario = cuerpo.usuario} = {}
    THEN Respuesta(401, MensajeSinUsuario)
    ELSE LET a == CHOOSE f \in administradores : f.usuario = cuerpo.usuario
         IN  IF ~bcryptCompare(cuerpo.contrasena, a.contrasena_hash)
             THEN Respuesta(401, MensajeMalaContrasena)
             ELSE [Respuesta(200, "Login exitoso") EXCEPT
                      !.id = a.id,
                      !.campos = SinHash(a),
                      !.token = jwtSign(a.id, a.usuario, a.nombre, a.rol,
                                        JWT_SECRET, ExpiraAdmin)]

LoginAdmin(cuerpo) ==
    LET r == RespLoginAdmin(cuerpo)
    IN  /\ r.status = 200 => Cardinality(tokens \cup {r.token}) <= MaxTokens
        /\ peticion' = [ruta |-> "POST admin/login", cab |-> SinCabecera, cuerpo |-> cuerpo]
        /\ manejador' = TRUE
        /\ reqUsuario' = TokenNulo
        /\ resp' = r
        /\ consultas' = IF r.status = 400 THEN 0 ELSE 1
        /\ tokens' = IF r.status = 200 THEN tokens \cup {r.token} ELSE tokens
        /\ UNCHANGED <<variante, proceso, reloj, tablas, enVuelo>>

----------------------------------------------------------------------------
(* GET /api/admin/verificar *)

AdminVerificar(cab) ==
    LET ruta == "GET admin/verificar"
        u == Entregado(ruta, cab)
    IN  /\ ruta \in RutasDe(variante)
        /\ peticion' = [ruta |-> ruta, cab |-> cab]
        /\ IF ~Pasa(ruta, cab)
           THEN Rechazar(cab)
           ELSE /\ manejador' = TRUE
                /\ reqUsuario' = u
                /\ IF variante = "server"
                   THEN /\ consultas' = 0
                        /\ resp' = [Respuesta(200, "") EXCEPT !.usuario = u]
                   ELSE /\ consultas' = 1
                        /\ resp' = IF \E a \in administradores : a.id = u.idUsuario
                                   THEN [Respuesta(200, "") EXCEPT !.id = u.idUsuario]
                                   ELSE Respuesta(401, "Sesion invalida")
                /\ UNCHANGED <<tablas, tokens, enVuelo>>
        /\ UNCHANGED <<variante, proceso, reloj>>

----------------------------------------------------------------------------
(* Input sets *)

CuerposRegistro ==
    {[usuario |-> "ana", contrasena |-> "p1", nombre |-> "Ana", correo |-> "ana@x"],
     [usuario |-> "ana", contrasena |-> "p1", nombre |-> "Ana", correo |-> "bob@x"],
     [usuario |-> "bob", contrasena |-> "p1", nombre |-> "Bob", correo |-> "ana@x"],
     [usuario |-> "bob", contrasena |-> "p1", nombre |-> "Bob", correo |-> "bob@x"],
     [usuario |-> "ana", contrasena |-> "", nombre |-> "Ana", correo |-> "ana@x"]}

CuerposLoginCliente ==
    {[usuario |-> "ana", contrasena |-> "p1"], [usuario |-> "ana", contrasena |-> "p2"],
     [usuario |-> "ana@x", contrasena |-> "p1"], [usuario |-> "zoe", contrasena |-> "p1"],
     [usuario |-> "", contrasena |-> "p1"]}

CuerposLoginAdmin ==
    {[usuario |-> ADMIN_USERNAME, contrasena |-> ADMIN_PASSWORD],
     [usuario |-> ADMIN_USERNAME, contrasena |-> "p2"],
     [usuario |-> "zoe", contrasena |-> ADMIN_PASSWORD],
     [usuario |-> ADMIN_USERNAME, contrasena |-> ""]}

----------------------------------------------------------------------------
(* Customer accounts: registrations and logins in any interleaving *)

NextCuentas ==
    \/ \E cuerpo \in CuerposRegistro, i \in 1..MaxEnVuelo : RegistroVerifica(cuerpo, i)
    \/ \E i \in 1..MaxEnVuelo : RegistroInserta(i)
    \/ \E cuerpo \in CuerposLoginCliente : LoginCliente(cuerpo)
    \/ \E cuerpo \in CuerposLoginAdmin : LoginAdmin(cuerpo)

SpecCuentas == Init /\ [][NextCuentas]_vars

----------------------------------------------------------------------------
(* Tokens over time: logins, the passing of time and a protected route *)

NextTokens ==
    \/ Tic
    \/ RegistroVerifica([usuario |-> "ana", contrasena |-> "p1", nombre |-> "Ana",
                         correo |-> "ana@x"], 1)
    \/ RegistroInserta(1)
    \/ LoginCliente([usuario |-> "ana", contrasena |-> "p1"])
    \/ LoginAdmin([usuario |-> ADMIN_USERNAME, contrasena |-> ADMIN_PASSWORD])
    \/ \E cab \in Cabeceras : AdminVerificar(cab)

SpecTokens == Init /\ [][NextTokens]_vars

----------------------------------------------------------------------------
(* Order capture: POST /api/ventas.  A JavaScript value of the body is a record
   with its type; a cart is a sequence of line items when it is an array. *)

Indefinido == [tipo |-> "undefined", n |-> 0, items |-> <<>>]
Numero(n) == [tipo |-> "number", n |-> n, items |-> <<>>]
Texto == [tipo |-> "string", n |-> 0, items |-> <<>>]          \* a non-empty string
Objeto == [tipo |-> "object", n |-> 0, items |-> <<>>]         \* a plain object
Arreglo(items) == [tipo |-> "array", n |-> 0, items |-> items]

\* !datos_carrito || !Array.isArray(datos_carrito) || datos_carrito.length === 0
CarritoVacioSinLongitud(carrito) == carrito.tipo # "array"

CarritoVacio(carrito) == carrito.tipo # "array" \/ Len(carrito.items) = 0

\* !total || total <= 0
TotalInvalido(total) == total.tipo # "number" \/ total.n = 0 \/ total.n <= 0

\* `ORD-${Date.now()}-${Math.floor(Math.random() * 1000)}`
NumeroOrden(ms, sufijo) == <<"ORD", reloj, ms, sufijo>>

EstadoInicialVenta == IF variante = "part_001" THEN "pending" ELSE "pendiente"

\* a handler that would take the articles of the cart out of the stock
ProductosDescontados(cuerpo) ==
    {[p EXCEPT !.stock = IF \E i \in DOMAIN cuerpo.datos_carrito.items :
                                 cuerpo.datos_carrito.items[i].product_id = p.id
                          THEN 0 ELSE @]
     : p \in productos}

\* the handler runs INSERT INTO ventas and no other statement: the table of
\* products after it
ProductosTrasVenta(cuerpo) == productos

CrearVenta(cuerpo, ms, sufijo) ==
    LET id == seq.ventas + 1
        numeroOrden == NumeroOrden(ms, sufijo)
        fila == [id |-> id, numero_orden |-> numeroOrden,
                 datos_carrito |-> cuerpo.datos_carrito.items,
                 total |-> cuerpo.total.n, nombre_cliente |-> "Cliente",
                 estado |-> EstadoInicialVenta, fecha_creacion |-> reloj]
    IN  /\ peticion' = [ruta |-> "POST ventas", cab |-> SinCabecera, cuerpo |-> cuerpo,
                        ms |-> ms, sufijo |-> sufijo]
        /\ manejador' = TRUE
        /\ reqUsuario' = TokenNulo
        /\ IF CarritoVacio(cuerpo.datos_carrito)
           THEN /\ resp' = Respuesta(400, "Carrito vacio")
                /\ consultas' = 0
                /\ UNCHANGED <<ventas, seq>>
           ELSE IF TotalInvalido(cuerpo.total)
           THEN /\ resp' = Respuesta(400, "Total invalido")
                /\ consultas' = 0
                /\ UNCHANGED <<ventas, seq>>
           ELSE /\ seq.ventas < MaxVentas
                /\ consultas' = 1
                /\ seq' = [seq EXCEPT !.ventas = id]
                \* numero_orden VARCHAR(100) UNIQUE NOT NULL
                /\ IF \E v \in ventas : v.numero_orden = numeroOrden
                   THEN /\ resp' = Respuesta(500, "Error registrando venta")
                        /\ UNCHANGED ventas
                   ELSE /\ resp' = [Respuesta(201, "Venta registrada") EXCEPT !.id = id]
                        /\ ventas' = ventas \cup {fila}
        /\ productos' = ProductosTrasVenta(cuerpo)
        /\ UNCHANGED <<variante, proceso, reloj, categorias, subcategorias,
                       administradores, clientes, tokens, enVuelo>>

Articulo == [product_id |-> 1, quantity |-> 2]

CuerposVenta ==
    [datos_carrito : {Indefinido, Texto, Objeto, Arreglo(<<>>), Arreglo(<<Articulo>>)},
     total : {Numero(25)}]
    \cup [datos_carrito : {Arreglo(<<Articulo>>)},
          total : {Indefinido, Numero(0), Numero(0 - 5)}]

Milisegundos == {0, 1}     \* Date.now() within the current hour
Sufijos == {0, 999}        \* Math.floor(Math.random() * 1000)

NextVentas ==
    \E cuerpo \in CuerposVenta, ms \in Milisegundos, sufijo \in Sufijos :
        CrearVenta(cuerpo, ms, sufijo)

SpecVentas == Init /\ [][NextVentas]_vars

----------------------------------------------------------------------------
(* Admin routes on categories and subcategories (part_000 and part_001) *)

Ids(tabla) == {f.id : f \in tabla}

\* the part every admin handler shares once the middleware has let it through
Atendida(ruta, cab) ==
    /\ manejador' = TRUE
    /\ reqUsuario' = Entregado(ruta, cab)

AdminCrearCategoria(cab, nombre) ==
    LET ruta == "POST admin/categorias"
        id == seq.categorias + 1
    IN  /\ ruta \in RutasDe(variante)
        /\ peticion' = [ruta |-> ruta, cab |-> cab, nombre |-> nombre]
        /\ IF ~Pasa(ruta, cab)
           THEN Rechazar(cab)
           ELSE /\ Atendida(ruta, cab)
                /\ IF nombre = ""
                   THEN /\ resp' = Respuesta(400, "El nombre de la categoria es requerido")
                        /\ consultas' = 0
                        /\ UNCHANGED <<categorias, seq>>
                   ELSE /\ seq.categorias < MaxCategorias
                        /\ consultas' = 1
                        /\ seq' = [seq EXCEPT !.categorias = id]
                        \* part_001: name VARCHAR(100) UNIQUE NOT NULL
                        /\ IF variante = "part_001" /\ \E c \in categorias : c.nombre = nombre
                           THEN /\ resp' = Respuesta(500, "Error creando categoria")
                                /\ UNCHANGED categorias
                           ELSE /\ resp' = [Respuesta(201, "") EXCEPT !.id = id]
                                /\ categorias' = categorias \cup {[id |-> id, nombre |-> nombre]}
                /\ UNCHANGED <<subcategorias, productos, administradores, clientes, ventas,
                               tokens, enVuelo>>
        /\ UNCHANGED <<variante, proceso, reloj>>

\* DELETE FROM categorias: subcategorias go with it (ON DELETE CASCADE) and the
\* products that named it, or one of its subcategories, keep NULL (ON DELETE SET NULL)
SubcategoriasDeNinguna(id) == {}

\* the subcategorias rows that REFERENCES categorias(id) ON DELETE CASCADE removes
SubcategoriasDe(id) == {sc \in subcategorias : sc.categoria_id = id}

AlBorrarCategoriaIntacto(p, id) == p

\* productos: categoria_id and subcategoria_id are ON DELETE SET NULL
AlBorrarCategoria(p, id) ==
    [p EXCEPT !.categoria_id = IF @ = id THEN NULL ELSE @,
              !.subcategoria_id = IF @ \in Ids(SubcategoriasDe(id)) THEN NULL ELSE @]

AdminEliminarCategoria(cab, id) ==
    LET ruta == "DELETE admin/categorias/:id"
        borradas == SubcategoriasDe(id)
    IN  /\ ruta \in RutasDe(variante)
        /\ peticion' = [ruta |-> ruta, cab |-> cab, id |-> id]
        /\ IF ~Pasa(ruta, cab)
           THEN Rechazar(cab)
           ELSE /\ Atendida(ruta, cab)
                /\ consultas' = 1
                /\ IF id \notin Ids(categorias)
                   THEN /\ resp' = Respuesta(404, "Categoria no encontrada")
                        /\ UNCHANGED <<categorias, subcategorias, productos>>
                   ELSE /\ resp' = Respuesta(200, "Categoria eliminada")
                        /\ categorias' = {c \in categorias : c.id # id}
                        /\ subcategorias' = subcategorias \ borradas
                        /\ productos' = {AlBorrarCategoria(p, id) : p \in productos}
                /\ UNCHANGED <<administradores, clientes, ventas, seq, tokens, enVuelo>>
        /\ UNCHANGED <<variante, proceso, reloj>>

AdminCrearSubcategoria(cab, categoria_id, nombre) ==
    LET ruta == "POST admin/subcategorias"
        id == seq.subcategorias + 1
    IN  /\ ruta \in RutasDe(variante)
        /\ peticion' = [ruta |-> ruta, cab |-> cab, id |-> categoria_id, nombre |-> nombre]
        /\ IF ~Pasa(ruta, cab)
           THEN Rechazar(cab)
           ELSE /\ Atendida(ruta, cab)
                /\ IF categoria_id = 0 \/ nombre = ""
                   THEN /\ resp' = Respuesta(400, "categoria_id y nombre son requeridos")
                        /\ consultas' = 0
                        /\ UNCHANGED <<subcategorias, seq>>
                   ELSE /\ seq.subcategorias < MaxCategorias
                        /\ consultas' = 1
                        /\ seq' = [seq EXCEPT !.subcategorias = id]
                        \* REFERENCES categorias(id); part_001: UNIQUE(category_id, name)
                        /\ IF \/ categoria_id \notin Ids(categorias)
                              \/ /\ variante = "part_001"
                                 /\ \E sc \in subcategorias :
                                       sc.categoria_id = categoria_id /\ sc.nombre = nombre
                           THEN /\ resp' = Respuesta(500, "Error creando subcategoria")
                                /\ UNCHANGED subcategorias
                           ELSE /\ resp' = [Respuesta(201, "") EXCEPT !.id = id]
                                /\ subcategorias' = subcategorias \cup
                                      {[id |-> id, categoria_id |-> categoria_id, nombre |-> nombre]}
                /\ UNCHANGED <<categorias, productos, administradores, clientes, ventas,
                               tokens, enVuelo>>
        /\ UNCHANGED <<variante, proceso, reloj>>

AdminEliminarSubcategoria(cab, id) ==
    LET ruta == "DELETE admin/subcategorias/:id"
    IN  /\ ruta \in RutasDe(variante)
        /\ peticion' = [ruta |-> ruta, cab |-> cab, id |-> id]
        /\ IF ~Pasa(ruta, cab)
           THEN Rechazar(cab)
           ELSE /\ Atendida(ruta, cab)
                /\ consultas' = 1
                /\ IF id \notin Ids(subcategorias)
                   THEN /\ resp' = Respuesta(404, "Subcategoria no encontrada")
                        /\ UNCHANGED <<subcategorias, productos>>
                   ELSE /\ resp' = Respuesta(200, "Subcategoria eliminada")
                        /\ subcategorias' = {sc \in subcategorias : sc.id # id}
                        /\ productos' =
                             {[p EXCEPT !.subcategoria_id = IF @ = id THEN NULL ELSE @]
                              : p \in productos}
                /\ UNCHANGED <<categorias, administradores, clientes, ventas, seq, tokens,
                               enVuelo>>
        /\ UNCHANGED <<variante, proceso, reloj>>

----------------------------------------------------------------------------
(* Admin routes on products.  A request body is a record with the set of the
   fields it carries (campos); a field outside campos is undefined in the handler. *)

CamposProducto ==
    {"nombre", "categoria_id", "subcategoria_id", "precio", "invertido", "descripcion",
     "imagen_base64", "stock", "estado", "destacado"}

CuerpoVacio ==
    [campos |-> {}, nombre |-> "", categoria_id |-> 0, subcategoria_id |-> 0, precio |-> 0,
     invertido |-> 0, descripcion |-> "", imagen_base64 |-> "", stock |-> 0, estado |-> "",
     destacado |-> FALSE]

\* value !== undefined
Dado(cuerpo, campo) == campo \in cuerpo.campos

\* String.prototype.toLowerCase on the state names in use
Minusculas(texto) ==
    CASE texto = "INACTIVO" -> "inactivo"
      [] texto = "ACTIVO" -> "activo"
      [] texto = "AGOTADO" -> "agotado"
      [] OTHER -> texto

\* part_001 keeps two states, whatever the request says
EstadoNormalizado(cuerpo) ==
    IF Dado(cuerpo, "estado") /\ Minusculas(cuerpo.estado) \in {"inactivo", "inactive"}
    THEN "inactive"
    ELSE "ACTIVO"

\* if (!nombre || !precio); part_001: if (!name || !category_id || !price)
FaltaRequerido(cuerpo) ==
    \/ ~Dado(cuerpo, "nombre") \/ cuerpo.nombre = ""
    \/ ~Dado(cuerpo, "precio") \/ cuerpo.precio = 0
    \/ variante = "part_001" /\ (~Dado(cuerpo, "categoria_id") \/ cuerpo.categoria_id = 0)

MensajeFaltaRequerido ==
    IF variante = "part_001" THEN "Campos requeridos: name, category_id, price"
    ELSE "Nombre y precio son requeridos"

\* the values bound to the INSERT
FilaNueva(cuerpo, id) ==
    [id |-> id,
     nombre |-> cuerpo.nombre,
     categoria_id |-> IF Dado(cuerpo, "categoria_id") /\ cuerpo.categoria_id # 0
                      THEN cuerpo.categoria_id ELSE NULL,
     subcategoria_id |-> IF Dado(cuerpo, "subcategoria_id") /\ cuerpo.subcategoria_id # 0
                         THEN cuerpo.subcategoria_id ELSE NULL,
     precio |-> cuerpo.precio,
     invertido |-> IF Dado(cuerpo, "invertido") THEN cuerpo.invertido ELSE 0,
     descripcion |-> IF Dado(cuerpo, "descripcion") /\ cuerpo.descripcion # ""
                     THEN cuerpo.descripcion
                     ELSE IF variante = "part_001" THEN NullTexto ELSE "",
     imagen_base64 |-> IF Dado(cuerpo, "imagen_base64") /\ cuerpo.imagen_base64 # ""
                       THEN cuerpo.imagen_base64 ELSE NullTexto,
     stock |-> IF Dado(cuerpo, "stock") THEN cuerpo.stock ELSE 0,
     estado |-> IF variante = "part_001" THEN EstadoNormalizado(cuerpo)
                ELSE IF Dado(cuerpo, "estado") /\ cuerpo.estado # "" THEN cuerpo.estado
                ELSE "ACTIVO",
     destacado |-> Dado(cuerpo, "destacado") /\ cuerpo.destacado,
     fecha_creacion |-> reloj,
     fecha_actualizacion |-> reloj]

\* a table of products without its foreign keys
ViolaReferenciaNunca(fila) == FALSE

\* REFERENCES categorias(id) and REFERENCES subcategorias(id)
ViolaReferencia(fila) ==
    \/ fila.categoria_id # NULL /\ fila.categoria_id \notin Ids(categorias)
    \/ fila.subcategoria_id # NULL /\ fila.subcategoria_id \notin Ids(subcategorias)

AdminCrearProducto(cab, cuerpo) ==
    LET ruta == "POST admin/productos"
        id == seq.productos + 1
        fila == FilaNueva(cuerpo, id)
    IN  /\ peticion' = [ruta |-> ruta, cab |-> cab, id |-> 0, cuerpo |-> cuerpo]
        /\ IF ~Pasa(ruta, cab)
           THEN Rechazar(cab)
           ELSE /\ Atendida(ruta, cab)
                /\ IF FaltaRequerido(cuerpo)
                   THEN /\ resp' = Respuesta(400, MensajeFaltaRequerido)
                        /\ consultas' = 0
                        /\ UNCHANGED <<productos, seq>>
                   ELSE /\ seq.productos < MaxProductos
                        /\ consultas' = 1
                        /\ seq' = [seq EXCEPT !.productos = id]
                        /\ IF ViolaReferencia(fila)
                           THEN /\ resp' = Respuesta(500, "Error creando producto")
                                /\ UNCHANGED productos
                           ELSE /\ resp' = [Respuesta(201, "") EXCEPT !.id = id]
                                /\ productos' = productos \cup {fila}
                /\ UNCHANGED <<categorias, subcategorias, administradores, clientes, ventas,
                               tokens, enVuelo>>
        /\ UNCHANGED <<variante, proceso, reloj>>

AdminEliminarProducto(cab, id) ==
    LET ruta == "DELETE admin/productos/:id"
    IN  /\ peticion' = [ruta |-> ruta, cab |-> cab, id |-> id]
        /\ IF ~Pasa(ruta, cab)
           THEN Rechazar(cab)
           ELSE /\ Atendida(ruta, cab)
                /\ consultas' = 1
                /\ IF id \notin Ids(productos)
                   THEN /\ resp' = Respuesta(404, "Producto no encontrado")
                        /\ UNCHANGED productos
                   ELSE /\ resp' = Respuesta(200, "Producto eliminado exitosamente")
                        /\ productos' = {f \in productos : f.id # id}
                /\ UNCHANGED <<categorias, subcategorias, administradores, clientes, ventas,
                               seq, tokens, enVuelo>>
        /\ UNCHANGED <<variante, proceso, reloj>>

(* PUT /api/admin/productos/:id.  server.js and part_000 bind every field to
   COALESCE($n, column): a NULL parameter keeps the column. *)

NuloSalvoEstado(cuerpo, campo) == campo # "estado" /\ ~Dado(cuerpo, campo)

\* the parameter bound for the field is NULL (server.js leaves imagen_base64 out
\* of the statement instead)
Nulo(cuerpo, campo) ==
    CASE campo = "precio" -> ~Dado(cuerpo, campo) \/ cuerpo.precio = 0
      [] campo = "stock" ->
           IF variante = "server"
           THEN ~Dado(cuerpo, campo) \/ cuerpo.stock = 0
           ELSE ~Dado(cuerpo, campo)
      [] campo = "imagen_base64" ->
           IF variante = "server"
           THEN ~Dado(cuerpo, campo) \/ cuerpo.imagen_base64 = ""
           ELSE ~Dado(cuerpo, campo)
      [] OTHER -> ~Dado(cuerpo, campo)

\* COALESCE($n, column)
Coalesce(cuerpo, fila, campo) ==
    IF Nulo(cuerpo, campo) THEN fila[campo] ELSE cuerpo[campo]

FilaActualizada(cuerpo, fila) ==
    [id |-> fila.id,
     nombre |-> Coalesce(cuerpo, fila, "nombre"),
     categoria_id |-> Coalesce(cuerpo, fila, "categoria_id"),
     subcategoria_id |-> Coalesce(cuerpo, fila, "subcategoria_id"),
     precio |-> Coalesce(cuerpo, fila, "precio"),
     invertido |-> Coalesce(cuerpo, fila, "invertido"),
     descripcion |-> Coalesce(cuerpo, fila, "descripcion"),
     imagen_base64 |-> Coalesce(cuerpo, fila, "imagen_base64"),
     stock |-> Coalesce(cuerpo, fila, "stock"),
     estado |-> Coalesce(cuerpo, fila, "estado"),
     destacado |-> Coalesce(cuerpo, fila, "destacado"),
     fecha_creacion |-> fila.fecha_creacion,
     fecha_actualizacion |-> reloj]

(* part_001 builds the statement from the fields that are defined.  status is
   always defined, and the text reads "field = 1" and "WHERE id = 2": it holds
   no $n placeholder, while values holds one entry per field and the id. *)
MarcadoresActualizar == 0

\* allowedFields always holds a status, whatever the body supplies
CamposPermitidos(cuerpo) ==
    IF variante = "part_001" THEN cuerpo.campos \cup {"estado"} ELSE cuerpo.campos

ValoresActualizar(cuerpo) == Cardinality(CamposPermitidos(cuerpo)) + 1

\* PostgreSQL refuses a bind whose parameter count differs from the statement's
ErrorDeEnlace(cuerpo) == ValoresActualizar(cuerpo) # MarcadoresActualizar

AdminActualizarProducto(cab, id, cuerpo) ==
    LET ruta == "PUT admin/productos/:id"
        filas == {f \in productos : f.id = id}
        nuevas == {FilaActualizada(cuerpo, f) : f \in filas}
    IN  /\ peticion' = [ruta |-> ruta, cab |-> cab, id |-> id, cuerpo |-> cuerpo]
        /\ IF ~Pasa(ruta, cab)
           THEN Rechazar(cab)
           ELSE /\ Atendida(ruta, cab)
                /\ IF variante = "part_001" /\ CamposPermitidos(cuerpo) = {}
                   THEN /\ resp' = Respuesta(400, "No hay campos para actualizar")
                        /\ consultas' = 0
                        /\ UNCHANGED productos
                   ELSE IF variante = "part_001" /\ ErrorDeEnlace(cuerpo)
                   THEN /\ resp' = Respuesta(500, "Error actualizando producto")
                        /\ consultas' = 1
                        /\ UNCHANGED productos
                   ELSE IF filas = {}
                   THEN /\ resp' = Respuesta(404, "Producto no encontrado")
                        /\ consultas' = 1
                        /\ UNCHANGED productos
                   ELSE IF \E f \in nuevas : ViolaReferencia(f)
                   THEN /\ resp' = Respuesta(500, "Error actualizando producto")
                        /\ consultas' = 1
                        /\ UNCHANGED productos
                   ELSE /\ resp' = [Respuesta(200, "") EXCEPT !.id = id]
                        /\ consultas' = 1
                        /\ productos' = (productos \ filas) \cup nuevas
                /\ UNCHANGED <<categorias, subcategorias, administradores, clientes, ventas,
                               seq, tokens, enVuelo>>
        /\ UNCHANGED <<variante, proceso, reloj>>

----------------------------------------------------------------------------
(* Admin routes on customers (server.js) and on sales (part_000) *)

\* UPDATE clientes SET nombre = COALESCE($1, nombre), correo = COALESCE($2, correo), ...
AdminActualizarCliente(cab, id, cuerpo) ==
    LET ruta == "PUT admin/clientes/:id"
        filas == {c \in clientes : c.id = id}
        nuevas == {[c EXCEPT !.nombre = IF "nombre" \in cuerpo.campos THEN cuerpo.nombre ELSE @,
                             !.correo = IF "correo" \in cuerpo.campos THEN cuerpo.correo ELSE @,
                             !.activo = IF "activo" \in cuerpo.campos THEN cuerpo.activo ELSE @]
                   : c \in filas}
    IN  /\ ruta \in RutasDe(variante)
        /\ peticion' = [ruta |-> ruta, cab |-> cab, id |-> id, cuerpo |-> cuerpo]
        /\ IF ~Pasa(ruta, cab)
           THEN Rechazar(cab)
           ELSE /\ Atendida(ruta, cab)
                /\ consultas' = 1
                /\ IF filas = {}
                   THEN /\ resp' = Respuesta(404, "Cliente no encontrado")
                        /\ UNCHANGED clientes
                   \* correo VARCHAR(255) UNIQUE NOT NULL
                   ELSE IF \E n \in nuevas : \E c \in clientes \ filas : c.correo = n.correo
                   THEN /\ resp' = Respuesta(500, "Error actualizando cliente")
                        /\ UNCHANGED clientes
                   ELSE /\ resp' = [Respuesta(200, "") EXCEPT
                                          !.id = id, !.campos = ColumnasClienteActualizado]
                        /\ clientes' = (clientes \ filas) \cup nuevas
                /\ UNCHANGED <<categorias, subcategorias, productos, administradores, ventas,
                               seq, tokens, enVuelo>>
        /\ UNCHANGED <<variante, proceso, reloj>>

AdminEliminarCliente(cab, id) ==
    LET ruta == "DELETE admin/clientes/:id"
    IN  /\ ruta \in RutasDe(variante)
        /\ peticion' = [ruta |-> ruta, cab |-> cab, id |-> id]
        /\ IF ~Pasa(ruta, cab)
           THEN Rechazar(cab)
           ELSE /\ Atendida(ruta, cab)
                /\ consultas' = 1
                /\ IF id \notin Ids(clientes)
                   THEN /\ resp' = Respuesta(404, "Cliente no encontrado")
                        /\ UNCHANGED clientes
                   ELSE /\ resp' = Respuesta(200, "Cliente eliminado exitosamente")
                        /\ clientes' = {c \in clientes : c.id # id}
                /\ UNCHANGED <<categorias, subcategorias, productos, administradores, ventas,
                               seq, tokens, enVuelo>>
        /\ UNCHANGED <<variante, proceso, reloj>>

\* UPDATE ventas SET estado = $1 WHERE id = $2
\* an UPDATE that would also reset the total
VentaConEstadoYTotal(v, estado) == [v EXCEPT !.estado = estado, !.total = 0]

\* UPDATE ventas SET estado = $1 WHERE id = $2
VentaConEstado(v, estado) == [v EXCEPT !.estado = estado]

AdminActualizarVenta(cab, id, estado) ==
    LET ruta == "PUT admin/ventas/:id"
    IN  /\ ruta \in RutasDe(variante)
        /\ peticion' = [ruta |-> ruta, cab |-> cab, id |-> id, estado |-> estado]
        /\ IF ~Pasa(ruta, cab)
           THEN Rechazar(cab)
           ELSE /\ Atendida(ruta, cab)
                /\ IF estado = ""
                   THEN /\ resp' = Respuesta(400, "Estado requerido")
                        /\ consultas' = 0
                        /\ UNCHANGED ventas
                   ELSE /\ consultas' = 1
                        /\ IF id \notin Ids(ventas)
                           THEN /\ resp' = Respuesta(404, "Venta no encontrada")
                                /\ UNCHANGED ventas
                           ELSE /\ resp' = [Respuesta(200, "") EXCEPT !.id = id]
                                /\ ventas' = {IF v.id = id THEN VentaConEstado(v, estado)
                                              ELSE v : v \in ventas}
                /\ UNCHANGED <<categorias, subcategorias, productos, administradores, clientes,
                               seq, tokens, enVuelo>>
        /\ UNCHANGED <<variante, proceso, reloj>>

(* The admin routes that only read *)

\* the queries the handler of a reading route issues
ConsultasLectura(ruta) ==
    IF ruta = "GET admin/dashboard"
    THEN (IF variante = "part_000" THEN 5 ELSE IF variante = "part_001" THEN 2 ELSE 1)
    ELSE 1

\* the table a route with an :id looks the row up in
TablaDeRuta(ruta) ==
    CASE ruta = "GET admin/productos/:id" -> productos
      [] ruta = "GET admin/clientes/:id" -> clientes
      [] ruta = "GET admin/ventas/:id" -> ventas
      [] OTHER -> {}

RutasConFila == {"GET admin/productos/:id", "GET admin/clientes/:id", "GET admin/ventas/:id"}

\* the columns of the customer rows the read routes send
ColumnasDe(ruta) ==
    IF ruta \in {"GET admin/clientes", "GET admin/clientes/:id"}
    THEN ColumnasClienteAdmin
    ELSE {}

AdminLeer(ruta, cab, id) ==
    /\ ruta \in RutasAdminLectura \cap RutasDe(variante)
    /\ peticion' = [ruta |-> ruta, cab |-> cab, id |-> id]
    /\ IF ~Pasa(ruta, cab)
       THEN Rechazar(cab)
       ELSE /\ Atendida(ruta, cab)
            /\ consultas' = ConsultasLectura(ruta)
            /\ resp' = IF ruta \notin RutasConFila
                       THEN [Respuesta(200, "") EXCEPT !.campos = ColumnasDe(ruta)]
                       ELSE IF id \notin Ids(TablaDeRuta(ruta))
                       THEN Respuesta(404, "No encontrado")
                       ELSE [Respuesta(200, "") EXCEPT !.filas = <<id>>,
                                                       !.campos = ColumnasDe(ruta)]
            /\ UNCHANGED <<tablas, tokens, enVuelo>>
    /\ UNCHANGED <<variante, proceso, reloj>>

----------------------------------------------------------------------------
(* The catalogue under an administrator: products, categories, subcategories *)

SoloNombrePrecio == [CuerpoVacio EXCEPT !.campos = {"nombre", "precio"},
                                        !.nombre = "Widget", !.precio = 10]

ConCategoria == [CuerpoVacio EXCEPT !.campos = {"nombre", "precio", "categoria_id"},
                                    !.nombre = "Widget", !.precio = 10, !.categoria_id = 1]

Completo == [campos |-> CamposProducto, nombre |-> "Radio", categoria_id |-> 1,
             subcategoria_id |-> 1, precio |-> 20, invertido |-> 5, descripcion |-> "d1",
             imagen_base64 |-> "img1", stock |-> 3, estado |-> "INACTIVO",
             destacado |-> TRUE]

SinPrecio == [CuerpoVacio EXCEPT !.campos = {"nombre"}, !.nombre = "Widget"]

CuerposCrearProducto == {SoloNombrePrecio, ConCategoria, Completo, SinPrecio}

SoloStock == [CuerpoVacio EXCEPT !.campos = {"stock"}, !.stock = 5]

StockCero == [CuerpoVacio EXCEPT !.campos = {"stock"}, !.stock = 0]

NombrePrecioDescripcion ==
    [CuerpoVacio EXCEPT !.campos = {"nombre", "precio", "descripcion"},
                        !.nombre = "Nuevo", !.precio = 30, !.descripcion = "d2"]

ImagenEstado ==
    [CuerpoVacio EXCEPT !.campos = {"imagen_base64", "estado", "destacado", "invertido"},
                        !.imagen_base64 = "img2", !.estado = "AGOTADO", !.invertido = 7]

DescripcionVacia == [CuerpoVacio EXCEPT !.campos = {"descripcion"}]

CuerposActualizarProducto ==
    {SoloStock, StockCero, NombrePrecioDescripcion, ImagenEstado, DescripcionVacia,
     CuerpoVacio}

AdminValido == [usuario |-> ADMIN_USERNAME, contrasena |-> ADMIN_PASSWORD]

CabecerasCatalogo == {SinCabecera} \cup {Portador(t) : t \in tokens}

\* the scenarios below follow one product, one category and one subcategory:
\* the create requests arrive while the id sequence has not been drawn from
PrimerProducto == seq.productos = 0

PrimeraCategoria == seq.categorias = 0

PrimeraSubcategoria == seq.subcategorias = 0

NextCatalogo ==
    \/ TicHasta(PasoReloj)
    \/ LoginAdmin(AdminValido)
    \/ \E cab \in CabecerasCatalogo : PrimeraCategoria /\ AdminCrearCategoria(cab, "Hogar")
    \/ \E cab \in CabecerasCatalogo :
          PrimeraSubcategoria /\ AdminCrearSubcategoria(cab, 1, "Cocina")
    \/ \E cab \in CabecerasCatalogo : AdminEliminarCategoria(cab, 1)
    \/ \E cab \in CabecerasCatalogo, cuerpo \in CuerposCrearProducto :
          PrimerProducto /\ AdminCrearProducto(cab, cuerpo)
    \/ \E cab \in CabecerasCatalogo, cuerpo \in CuerposActualizarProducto :
          AdminActualizarProducto(cab, 1, cuerpo)
    \/ \E cab \in CabecerasCatalogo : AdminEliminarProducto(cab, 1)

SpecCatalogo == Init /\ [][NextCatalogo]_vars

----------------------------------------------------------------------------
(* Every admin route, under every kind of Authorization header; a customer and
   a sale come in from the public routes *)

ClienteAna == [usuario |-> "ana", contrasena |-> "p1", nombre |-> "Ana", correo |-> "ana@x"]

CambioCliente == [campos |-> {"activo"}, nombre |-> "", correo |-> "", activo |-> FALSE]

VentaSimple == [datos_carrito |-> Arreglo(<<Articulo>>), total |-> Numero(25)]

CabecerasAdmin == {SinCabecera, Portador(TokenAjeno)} \cup {Portador(t) : t \in tokens}

NextAdmin ==
    \/ LoginAdmin(AdminValido)
    \/ RegistroVerifica(ClienteAna, 1)
    \/ RegistroInserta(1)
    \/ CrearVenta(VentaSimple, 0, 0)
    \/ \E cab \in CabecerasAdmin : AdminVerificar(cab)
    \/ \E cab \in CabecerasAdmin, ruta \in RutasAdminLectura : AdminLeer(ruta, cab, 1)
    \/ \E cab \in CabecerasAdmin : PrimeraCategoria /\ AdminCrearCategoria(cab, "Hogar")
    \/ \E cab \in CabecerasAdmin : AdminEliminarCategoria(cab, 1)
    \/ \E cab \in CabecerasAdmin : PrimeraSubcategoria /\ AdminCrearSubcategoria(cab, 1, "Cocina")
    \/ \E cab \in CabecerasAdmin : AdminEliminarSubcategoria(cab, 1)
    \/ \E cab \in CabecerasAdmin : PrimerProducto /\ AdminCrearProducto(cab, ConCategoria)
    \/ \E cab \in CabecerasAdmin : AdminActualizarProducto(cab, 1, SoloStock)
    \/ \E cab \in CabecerasAdmin : AdminEliminarProducto(cab, 1)
    \/ \E cab \in CabecerasAdmin : AdminActualizarCliente(cab, 1, CambioCliente)
    \/ \E cab \in CabecerasAdmin : AdminEliminarCliente(cab, 1)
    \/ \E cab \in CabecerasAdmin : AdminActualizarVenta(cab, 1, "enviado")

SpecAdmin == Init /\ [][NextAdmin]_vars

----------------------------------------------------------------------------
(* Deleting categories that own subcategories and products (part_000, part_001) *)

\* a product of category 2 under a subcategory of category 1
Cruzado == [CuerpoVacio EXCEPT !.campos = {"nombre", "precio", "categoria_id", "subcategoria_id"},
                               !.nombre = "Mixto", !.precio = 12, !.categoria_id = 2,
                               !.subcategoria_id = 1]

CabecerasEmitidas == {Portador(t) : t \in tokens}

NextCategorias ==
    \/ LoginAdmin(AdminValido)
    \/ \E cab \in CabecerasEmitidas, nombre \in {"Hogar", "Ropa"} :
          AdminCrearCategoria(cab, nombre)
    \/ \E cab \in CabecerasEmitidas, categoria_id \in {1, 2} :
          AdminCrearSubcategoria(cab, categoria_id, "Cocina")
    \/ \E cab \in CabecerasEmitidas, cuerpo \in {Completo, Cruzado} :
          AdminCrearProducto(cab, cuerpo)
    \/ \E cab \in CabecerasEmitidas, id \in {1, 2} : AdminEliminarCategoria(cab, id)

SpecCategorias == Init /\ [][NextCategorias]_vars

----------------------------------------------------------------------------
(* Restart: the process ends and iniciarServidor runs inicializarBaseDatos again
   on the database as it stands, under the configuration of the new process *)

AdminNuevoClaveFija(id, usuario, contrasena) ==
    [id |-> id, usuario |-> usuario, contrasena_hash |-> bcryptHash(ADMIN_PASSWORD),
     nombre |-> "Administrador Principal", rol |-> "admin"]

\* INSERT INTO administradores (usuario, contrasena_hash, nombre, correo, rol)
AdminNuevo(id, usuario, contrasena) ==
    [id |-> id, usuario |-> usuario, contrasena_hash |-> bcryptHash(contrasena),
     nombre |-> "Administrador Principal", rol |-> "admin"]

\* DELETE FROM administradores WHERE usuario = $1
AdminsTrasBorrar(usuario) == {a \in administradores : a.usuario # usuario}

\* the tables exist (CREATE TABLE IF NOT EXISTS) and server.js finds categories,
\* so only the administrator is rewritten; requests in flight die with the process
Reiniciar(usuario, contrasena) ==
    LET id == seq.administradores + 1
    IN  /\ seq.administradores < 1 + MaxReinicios
        /\ peticion' = [ruta |-> "inicio", cab |-> SinCabecera, usuario |-> usuario,
                        contrasena |-> contrasena]
        /\ seq' = [seq EXCEPT !.administradores = id]
        /\ administradores' = AdminsTrasBorrar(usuario) \cup {AdminNuevo(id, usuario, contrasena)}
        /\ enVuelo' = [i \in 1..MaxEnVuelo |-> RegistroLibre]
        /\ resp' = Respuesta(200, "Base de datos inicializada")
        \* the statements that touch rows: server.js counts the categories first
        /\ consultas' = IF variante = "server" THEN 3 ELSE 2
        /\ manejador' = FALSE
        /\ reqUsuario' = TokenNulo
        /\ UNCHANGED <<variante, proceso, reloj, categorias, subcategorias, productos, clientes,
                       ventas, tokens>>

Configuraciones ==
    {[usuario |-> ADMIN_USERNAME, contrasena |-> ADMIN_PASSWORD],
     [usuario |-> ADMIN_USERNAME, contrasena |-> "nueva"],
     [usuario |-> "root", contrasena |-> "nueva"]}

AnaCorrecta == [usuario |-> "ana", contrasena |-> "p1"]

NextReinicio ==
    \/ TicHasta(PasoReloj)
    \/ \E c \in Configuraciones : Reiniciar(c.usuario, c.contrasena)
    \/ \E c \in Configuraciones : LoginAdmin(c)
    \/ RegistroVerifica(ClienteAna, 1)
    \/ RegistroInserta(1)
    \/ LoginCliente(AnaCorrecta)
    \/ \E cab \in CabecerasCatalogo : AdminVerificar(cab)
    \/ \E cab \in CabecerasCatalogo : AdminActualizarCliente(cab, 1, CambioCliente)
    \/ \E cab \in CabecerasCatalogo : AdminEliminarCliente(cab, 1)

SpecReinicio == Init /\ [][NextReinicio]_vars

----------------------------------------------------------------------------
(* The public catalogue: GET /api/productos and GET /api/productos/:id
   (part_001: /api/products) *)

\* the characters of the names, descriptions and search terms in use
Letras(texto) ==
    CASE texto = "Tv" -> <<"T", "v">>
      [] texto = "TV" -> <<"T", "V">>
      [] texto = "tv" -> <<"t", "v">>
      [] texto = "hd" -> <<"h", "d">>
      [] texto = "Pie" -> <<"P", "i", "e">>
      [] texto = "e" -> <<"e">>
      [] texto = "" -> <<>>

\* LOWER / the case folding of ILIKE, one character
MinusculaLetra(c) ==
    CASE c = "T" -> "t"
      [] c = "V" -> "v"
      [] c = "P" -> "p"
      [] OTHER -> c

EnMinusculas(letras) == [i \in 1..Len(letras) |-> MinusculaLetra(letras[i])]

\* letras LIKE '%termino%'
Subcadena(termino, letras) ==
    \E i \in 0..(Len(letras) - Len(termino)) :
        SubSeq(letras, i + 1, i + Len(termino)) = termino

\* columna ILIKE '%termino%', LOWER(columna) LIKE LOWER('%termino%'): NULL matches nothing
ILike(columna, termino) ==
    /\ columna # NullTexto
    /\ Subcadena(EnMinusculas(Letras(termino)), EnMinusculas(Letras(columna)))

\* the search of server.js reads the name, that of part_000 and part_001 the
\* name and the description
Busca(p, termino) ==
    IF variante = "server"
    THEN ILike(p.nombre, termino)
    ELSE ILike(p.nombre, termino) \/ ILike(p.descripcion, termino)

\* the WHERE clause of the list built from req.query
Coincide(p, q) ==
    /\ p.estado = "ACTIVO"
    /\ q.categoria_id # 0 => p.categoria_id = q.categoria_id
    /\ (variante = "server" /\ q.destacado) => p.destacado
    /\ q.buscar # "" => Busca(p, q.buscar)

\* const { limite = 100 } (part_000, part_001: 50); parseInt(limite)
LimitePorDefecto == IF variante = "server" THEN 100 ELSE 50

ParseIntLimite(q) == IF q.limite.tipo = "undefined" THEN LimitePorDefecto ELSE q.limite.n

\* LIMIT NaN and LIMIT of a negative number are errors of the statement
LimiteInvalido(q) == q.limite.tipo = "string" \/ ParseIntLimite(q) < 0

FechaDe(filas, id) == (CHOOSE p \in filas : p.id = id).fecha_creacion

\* ORDER BY fecha_creacion DESC: every order of the ids of filas the clause
\* allows; rows of one timestamp come in either order
Ordenes(filas) ==
    {orden \in [1..Cardinality(filas) -> Ids(filas)] :
        /\ \A i, j \in 1..Cardinality(filas) : i # j => orden[i] # orden[j]
        /\ \A i, j \in 1..Cardinality(filas) :
              i < j => FechaDe(filas, orden[i]) >= FechaDe(filas, orden[j])}

Truncar(orden, limite) == SubSeq(orden, 1, IF limite < Len(orden) THEN limite ELSE Len(orden))

ListarProductos(q) ==
    /\ "GET productos" \in RutasDe(variante)
    /\ peticion' = [ruta |-> "GET productos", cab |-> SinCabecera, consulta |-> q]
    /\ manejador' = TRUE
    /\ reqUsuario' = TokenNulo
    /\ consultas' = 1
    /\ IF LimiteInvalido(q)
       THEN resp' = Respuesta(500, "Error obteniendo productos")
       ELSE \E orden \in Ordenes({p \in productos : Coincide(p, q)}) :
               resp' = [Respuesta(200, "") EXCEPT !.filas = Truncar(orden, ParseIntLimite(q))]
    /\ UNCHANGED <<variante, proceso, reloj, tablas, tokens, enVuelo>>

\* WHERE p.id = $1 (server.js); AND LOWER(p.estado) = 'activo' (part_000, part_001)
VisiblePorId(p) == variante = "server" \/ Minusculas(p.estado) = "activo"

ObtenerProducto(id) ==
    /\ "GET productos/:id" \in RutasDe(variante)
    /\ peticion' = [ruta |-> "GET productos/:id", cab |-> SinCabecera, id |-> id]
    /\ manejador' = TRUE
    /\ reqUsuario' = TokenNulo
    /\ consultas' = 1
    /\ resp' = IF {p \in productos : p.id = id /\ VisiblePorId(p)} = {}
               THEN Respuesta(404, "Producto no encontrado")
               ELSE [Respuesta(200, "") EXCEPT !.filas = <<id>>]
    /\ UNCHANGED <<variante, proceso, reloj, tablas, tokens, enVuelo>>

Consulta(categoria_id, buscar, limite) ==
    [categoria_id |-> categoria_id, buscar |-> buscar, limite |-> limite, destacado |-> FALSE]

Consultas ==
    {Consulta(0, "", Indefinido), Consulta(1, "", Indefinido), Consulta(0, "TV", Indefinido),
     Consulta(0, "e", Indefinido), Consulta(0, "", Numero(1)), Consulta(1, "TV", Numero(1)),
     Consulta(0, "", Numero(0 - 1)), Consulta(0, "", Texto),
     [Consulta(0, "", Indefinido) EXCEPT !.destacado = TRUE]}

Tele == [CuerpoVacio EXCEPT !.campos = {"nombre", "precio", "categoria_id", "descripcion"},
                            !.nombre = "Tv", !.precio = 30, !.categoria_id = 1,
                            !.descripcion = "hd"]

Pie == [CuerpoVacio EXCEPT !.campos = {"nombre", "precio", "categoria_id", "descripcion",
                                       "destacado"},
                           !.nombre = "Pie", !.precio = 4, !.categoria_id = 2,
                           !.descripcion = "tv", !.destacado = TRUE]

Oculto == [CuerpoVacio EXCEPT !.campos = {"nombre", "precio", "categoria_id", "estado"},
                              !.nombre = "Tv", !.precio = 30, !.categoria_id = 1,
                              !.estado = "INACTIVO"]

Desactivar == [CuerpoVacio EXCEPT !.campos = {"estado"}, !.estado = "INACTIVO"]

NextPublico ==
    \/ TicHasta(PasoReloj)
    \/ LoginAdmin(AdminValido)
    \/ \E cab \in CabecerasEmitidas, nombre \in {"Hogar", "Ropa"} :
          AdminCrearCategoria(cab, nombre)
    \/ \E cab \in CabecerasEmitidas, cuerpo \in {Tele, Pie, Oculto} :
          AdminCrearProducto(cab, cuerpo)
    \/ \E cab \in CabecerasEmitidas, id \in 1..MaxProductos :
          AdminActualizarProducto(cab, id, Desactivar)
    \/ \E cab \in CabecerasEmitidas, id \in 1..MaxProductos :
          AdminLeer("GET admin/productos/:id", cab, id)
    \/ \E q \in Consultas : ListarProductos(q)
    \/ \E id \in 1..MaxProductos : ObtenerProducto(id)

SpecPublico == Init /\ [][NextPublico]_vars

----------------------------------------------------------------------------
(* A database call that fails: pool.query rejects (the connection is lost, the
   statement is refused) and the catch block of the handler answers *)

\* the dashboard routes of server.js that answer { success: true, data: [] }
\* from their catch block
RutasQueCallan ==
    IF variante = "server"
    THEN {"GET admin/dashboard/top-products", "GET admin/dashboard/top-categories",
          "GET admin/dashboard/daily-sales"}
    ELSE {}

\* the routes whose handler calls pool.query: /api/health, /api/salud and
\* /api/admin/verificar of server.js answer without one
RutasConConsulta ==
    RutasDe(variante) \ (IF variante = "server" THEN {"GET admin/verificar", "GET salud"}
                         ELSE {})

\* what the catch block sends; the text of the message differs by route
RespuestaEnFalla(ruta) ==
    IF ruta \in RutasQueCallan THEN Respuesta(200, "") ELSE Respuesta(500, "Error")

\* the request reaches the first pool.query of the handler, which rejects
FallaBD(ruta, cab) ==
    /\ ruta \in RutasConConsulta
    /\ peticion' = [ruta |-> ruta, cab |-> cab, falla |-> TRUE]
    /\ IF ~Pasa(ruta, cab)
       THEN Rechazar(cab)
       ELSE /\ Atendida(ruta, cab)
            /\ consultas' = 1
            /\ resp' = RespuestaEnFalla(ruta)
            /\ UNCHANGED <<tablas, tokens, enVuelo>>
    /\ UNCHANGED <<variante, proceso, reloj>>

\* GET /api/salud, GET /api/health with the database up
Salud ==
    /\ peticion' = [ruta |-> "GET salud", cab |-> SinCabecera]
    /\ manejador' = TRUE
    /\ reqUsuario' = TokenNulo
    /\ consultas' = IF variante = "server" THEN 0 ELSE 2
    /\ resp' = Respuesta(200, IF variante = "server" THEN "" ELSE "Servidor funcionando")
    /\ UNCHANGED <<variante, proceso, reloj, tablas, tokens, enVuelo>>

NextFallas ==
    \/ TicHasta(PasoReloj)
    \/ LoginAdmin(AdminValido)
    \/ Salud
    \/ \E cab \in CabecerasAdmin, ruta \in RutasAdminLectura : AdminLeer(ruta, cab, 1)
    \/ \E cab \in CabecerasAdmin, ruta \in RutasPublicas \cup RutasProtegidas :
          FallaBD(ruta, cab)

SpecFallas == Init /\ [][NextFallas]_vars

----------------------------------------------------------------------------
(* The routes that send a customer or an administrator in their body *)

NextPerfiles ==
    \/ \E cuerpo \in CuerposLoginAdmin : LoginAdmin(cuerpo)
    \/ \E cuerpo \in CuerposRegistro : RegistroVerifica(cuerpo, 1)
    \/ RegistroInserta(1)
    \/ \E cuerpo \in CuerposLoginCliente : LoginCliente(cuerpo)
    \/ \E cab \in CabecerasAdmin, ruta \in {"GET admin/clientes", "GET admin/clientes/:id"} :
          AdminLeer(ruta, cab, 1)
    \/ \E cab \in CabecerasAdmin : AdminActualizarCliente(cab, 1, CambioCliente)

SpecPerfiles == Init /\ [][NextPerfiles]_vars

----------------------------------------------------------------------------
(* The status of products and of sales under the admin updates *)

SoloEstado(estado) == [CuerpoVacio EXCEPT !.campos = {"estado"}, !.estado = estado]

EnExistencia ==
    [CuerpoVacio EXCEPT !.campos = {"nombre", "precio", "categoria_id", "stock", "estado"},
                        !.nombre = "Widget", !.precio = 10, !.categoria_id = 1,
                        !.stock = 3, !.estado = "INACTIVO"]

EstadosProducto == {"AGOTADO", "inactivo", "ACTIVO"}

EstadosVenta == {"", "enviado", "pendiente"}

NextEstados ==
    \/ LoginAdmin(AdminValido)
    \/ \E ms \in {0, 1} : CrearVenta(VentaSimple, ms, 0)
    \/ \E cab \in CabecerasCatalogo : PrimeraCategoria /\ AdminCrearCategoria(cab, "Hogar")
    \/ \E cab \in CabecerasCatalogo, cuerpo \in {Tele, EnExistencia} :
          PrimerProducto /\ AdminCrearProducto(cab, cuerpo)
    \/ \E cab \in CabecerasCatalogo, estado \in EstadosProducto :
          AdminActualizarProducto(cab, 1, SoloEstado(estado))
    \/ \E cab \in CabecerasCatalogo, id \in 1..MaxVentas, estado \in EstadosVenta :
          AdminActualizarVenta(cab, id, estado)

SpecEstados == Init /\ [][NextEstados]_vars

----------------------------------------------------------------------------
(* The admin routes under the tokens the logins and the registration issue,
   those of customers included *)

NextRoles ==
    \/ LoginAdmin(AdminValido)
    \/ RegistroVerifica(ClienteAna, 1)
    \/ RegistroInserta(1)
    \/ LoginCliente(AnaCorrecta)
    \/ CrearVenta(VentaSimple, 0, 0)
    \/ \E cab \in CabecerasEmitidas : AdminVerificar(cab)
    \/ \E cab \in CabecerasEmitidas, ruta \in RutasAdminLectura : AdminLeer(ruta, cab, 1)
    \/ \E cab \in CabecerasEmitidas : PrimeraCategoria /\ AdminCrearCategoria(cab, "Hogar")
    \/ \E cab \in CabecerasEmitidas : AdminEliminarCategoria(cab, 1)
    \/ \E cab \in CabecerasEmitidas :
          PrimeraSubcategoria /\ AdminCrearSubcategoria(cab, 1, "Cocina")
    \/ \E cab \in CabecerasEmitidas : AdminEliminarSubcategoria(cab, 1)
    \/ \E cab \in CabecerasEmitidas : PrimerProducto /\ AdminCrearProducto(cab, ConCategoria)
    \/ \E cab \in CabecerasEmitidas : AdminActualizarProducto(cab, 1, SoloStock)
    \/ \E cab \in CabecerasEmitidas : AdminEliminarProducto(cab, 1)
    \/ \E cab \in CabecerasEmitidas : AdminActualizarCliente(cab, 1, CambioCliente)
    \/ \E cab \in CabecerasEmitidas : AdminEliminarCliente(cab, 1)
    \/ \E cab \in CabecerasEmitidas : AdminActualizarVenta(cab, 1, "enviado")

SpecRoles == Init /\ [][NextRoles]_vars

----------------------------------------------------------------------------
(* Startup: iniciarServidor awaits inicializarBaseDatos, then exits or listens *)

\* the process is stopped from outside; the requests in flight die with it
Detener ==
    /\ proceso.fase = "escuchando"
    /\ proceso' = [proceso EXCEPT !.fase = "detenido"]
    /\ peticion' = [ruta |-> "detener", cab |-> SinCabecera]
    /\ enVuelo' = [i \in 1..MaxEnVuelo |-> RegistroLibre]
    /\ resp' = SinRespuesta
    /\ consultas' = 0
    /\ manejador' = FALSE
    /\ reqUsuario' = TokenNulo
    /\ UNCHANGED <<variante, reloj, tablas, tokens>>

\* a new process runs inicializarBaseDatos: with the database up it recreates
\* the administrator and returns true; with the database down the first query
\* rejects and the catch block returns false
InicializarBaseDatos(exito) ==
    LET id == seq.administradores + 1
    IN  /\ proceso.fase \in {"detenido", "terminado"}
        /\ exito => seq.administradores < 1 + MaxReinicios
        /\ proceso' = [fase |-> "inicializado", bdInicializada |-> exito]
        /\ peticion' = [ruta |-> "inicializarBaseDatos", cab |-> SinCabecera]
        /\ IF exito
           THEN /\ seq' = [seq EXCEPT !.administradores = id]
                /\ administradores' = AdminsTrasBorrar(ADMIN_USERNAME)
                        \cup {AdminNuevo(id, ADMIN_USERNAME, ADMIN_PASSWORD)}
                /\ resp' = Respuesta(200, "Base de datos inicializada")
                /\ consultas' = IF variante = "server" THEN 3 ELSE 2
           ELSE /\ UNCHANGED <<seq, administradores>>
                /\ resp' = Respuesta(500, "Error en inicializacion")
                /\ consultas' = 1
        /\ manejador' = FALSE
        /\ reqUsuario' = TokenNulo
        /\ UNCHANGED <<variante, reloj, categorias, subcategorias, productos, clientes,
                       ventas, tokens, enVuelo>>

\* if (!bdInicializada) process.exit(1): server.js and part_000 read the result;
\* startServer of part_001 awaits initDatabase in a try block and drops it
SaleSiFalla == variante # "part_001"

\* what iniciarServidor does once inicializarBaseDatos has returned
ExitOListen ==
    /\ proceso.fase = "inicializado"
    /\ proceso' = [proceso EXCEPT !.fase = IF ~proceso.bdInicializada /\ SaleSiFalla
                                           THEN "terminado" ELSE "escuchando"]
    /\ peticion' = [ruta |-> "iniciarServidor", cab |-> SinCabecera]
    /\ resp' = SinRespuesta
    /\ consultas' = 0
    /\ manejador' = FALSE
    /\ reqUsuario' = TokenNulo
    /\ UNCHANGED <<variante, reloj, tablas, tokens, enVuelo>>

\* requests are served by a listening process only
Sirve == proceso.fase = "escuchando"

NextArranque ==
    \/ Detener
    \/ \E exito \in BOOLEAN : InicializarBaseDatos(exito)
    \/ ExitOListen
    \/ \E cuerpo \in CuerposLoginAdmin : Sirve /\ proceso.bdInicializada /\ LoginAdmin(cuerpo)
    \/ \E cab \in CabecerasCatalogo : Sirve /\ proceso.bdInicializada /\ AdminVerificar(cab)
    \/ \E cab \in CabecerasCatalogo :
          Sirve /\ proceso.bdInicializada /\ AdminCrearCategoria(cab, "Hogar")
    \/ \E ruta \in {"POST admin/login", "GET productos"} :
          Sirve /\ ~proceso.bdInicializada /\ FallaBD(ruta, SinCabecera)

SpecArranque == Init /\ [][NextArranque]_vars

----------------------------------------------------------------------------
(* The references between products, subcategories and categories under every
   admin operation on the three tables *)

\* a product is moved to category 2 and subcategory 1
Mover == [CuerpoVacio EXCEPT !.campos = {"categoria_id", "subcategoria_id"},
                             !.categoria_id = 2, !.subcategoria_id = 1]

NextReferencias ==
    \/ LoginAdmin(AdminValido)
    \/ \E cab \in CabecerasEmitidas, nombre \in {"Hogar", "Ropa"} :
          AdminCrearCategoria(cab, nombre)
    \/ \E cab \in CabecerasEmitidas, categoria_id \in {1, 2} :
          AdminCrearSubcategoria(cab, categoria_id, "Cocina")
    \/ \E cab \in CabecerasEmitidas, cuerpo \in {Completo, Cruzado} :
          AdminCrearProducto(cab, cuerpo)
    \/ \E cab \in CabecerasEmitidas : AdminActualizarProducto(cab, 1, Mover)
    \/ \E cab \in CabecerasEmitidas : AdminEliminarProducto(cab, 1)
    \/ \E cab \in CabecerasEmitidas, id \in {1, 2} : AdminEliminarCategoria(cab, id)
    \/ \E cab \in CabecerasEmitidas, id \in {1, 2} : AdminEliminarSubcategoria(cab, id)

SpecReferencias == Init /\ [][NextReferencias]_vars

----------------------------------------------------------------------------
(* Properties.  Every step but Tic handles one request (or one step of a
   registration) and records it in peticion', so a step that leaves the clock
   alone is the handling of peticion'. *)

EsPeticion(ruta) == reloj' = reloj /\ peticion'.ruta = ruta

\* C1: a registration whose username or e-mail equals that of a customer
\* already stored is answered 400 with the conflict message, and the customer
\* table (and its id sequence) is left as it was: no row is created.
C1_RegistroDuplicadoRechazado ==
    [][(/\ EsPeticion("POST clientes/registro")
        /\ peticion'.fase = "verifica"
        /\ peticion'.cuerpo.contrasena # ""
        /\ \E c \in clientes : \/ c.usuario = peticion'.cuerpo.usuario
                               \/ c.correo = peticion'.cuerpo.correo)
       => (/\ resp'.status = 400
           /\ resp'.mensaje = MensajeConflicto
           /\ clientes' = clientes
           /\ seq' = seq
           /\ enVuelo' = enVuelo)]_vars

\* a registration was refused because its e-mail alone, not its username, is taken
C1_Testigo ==
    /\ peticion.ruta = "POST clientes/registro"
    /\ peticion.fase = "verifica"
    /\ resp.status = 400
    /\ resp.mensaje = MensajeConflicto
    /\ \E c \in clientes : c.correo = peticion.cuerpo.correo
    /\ \A c \in clientes : c.usuario # peticion.cuerpo.usuario

\* C2: customer login and administrator login answer a wrong password for a
\* known username with 401, and with exactly the answer they give to an unknown
\* username.
C2_LoginNoRevelaUsuario ==
    /\ \A conocido, desconocido \in CuerposLoginCliente :
          (/\ conocido.contrasena # "" /\ desconocido.contrasena # ""
           /\ desconocido.usuario # ""
           /\ \A c \in clientes : c.usuario # desconocido.usuario /\ c.correo # desconocido.usuario
           /\ \E c \in clientes : /\ c.usuario = conocido.usuario
                                  /\ c.contrasena_hash # bcryptHash(conocido.contrasena))
          => (/\ RespLoginCliente(conocido).status = 401
              /\ RespLoginCliente(conocido) = RespLoginCliente(desconocido))
    /\ \A conocido, desconocido \in CuerposLoginAdmin :
          (/\ conocido.contrasena # "" /\ desconocido.contrasena # ""
           /\ \A a \in administradores : a.usuario # desconocido.usuario
           /\ \E a \in administradores : /\ a.usuario = conocido.usuario
                                         /\ a.contrasena_hash # bcryptHash(conocido.contrasena))
          => (/\ RespLoginAdmin(conocido).status = 401
              /\ RespLoginAdmin(conocido) = RespLoginAdmin(desconocido))

\* the lifetime the login that issued token t gave it
VidaToken(t) ==
    IF variante = "server"
    THEN (IF t.rol = "admin" THEN HorasAdmin ELSE HorasCliente)
    ELSE JWT_EXPIRE

\* C3: a token issued at time T by a login (or a registration) is admitted by
\* the middleware on every request made before T plus its lifetime and is
\* answered 403 on every request made after that instant.
C3_TokenAdmitidoHastaExpirar ==
    [][\A t \in tokens :
          (EsPeticion("GET admin/verificar") /\ peticion'.cab = Portador(t))
          => (/\ reloj < t.iat + VidaToken(t) => (manejador' /\ reqUsuario' = t)
              /\ reloj > t.iat + VidaToken(t) => (~manejador' /\ resp'.status = 403))]_vars

\* an issued token was presented after its lifetime and refused, while another
\* one, issued later, is still inside its lifetime
C3_Testigo ==
    /\ peticion.ruta = "GET admin/verificar"
    /\ peticion.cab.tipo = "token"
    /\ peticion.cab.token \in tokens
    /\ reloj > peticion.cab.token.iat + VidaToken(peticion.cab.token)
    /\ resp.status = 403
    /\ \E t \in tokens : reloj < t.iat + VidaToken(t)

\* C5: on a protected route a request without a token is answered 401, one whose
\* token fails the signature or expiry check is answered 403, and in both cases
\* the handler does not run; with a valid token the handler runs and receives
\* the claims of the token.
C5_MiddlewareDistingue ==
    [][EsPeticion("GET admin/verificar")
       => LET cab == peticion'.cab
              valido == cab.token.firma = JWT_SECRET /\ reloj < cab.token.exp
          IN  /\ cab.tipo # "token"
                 => (resp'.status = 401 /\ ~manejador' /\ consultas' = 0)
              /\ (cab.tipo = "token" /\ ~valido)
                 => (resp'.status = 403 /\ ~manejador' /\ consultas' = 0)
              /\ (cab.tipo = "token" /\ valido)
                 => (manejador' /\ reqUsuario' = cab.token)]_vars

\* a token signed with another key was presented and answered 403
C5_Testigo ==
    /\ peticion.ruta = "GET admin/verificar"
    /\ peticion.cab = Portador(TokenAjeno)
    /\ resp.status = 403
    /\ ~manejador
    /\ tokens # {}

\* the sale submission names a cart that is an array with a line item and a
\* total that is a number above zero
VentaValida(cuerpo) ==
    /\ cuerpo.datos_carrito.tipo = "array"
    /\ Len(cuerpo.datos_carrito.items) > 0
    /\ cuerpo.total.tipo = "number"
    /\ cuerpo.total.n > 0

\* C6: a sale submission whose cart is missing, not an array or an empty array,
\* or whose total is missing, zero or negative, is answered 400 and no sale row
\* is created.
C6_VentaInvalidaRechazada ==
    [][(EsPeticion("POST ventas") /\ ~VentaValida(peticion'.cuerpo))
       => (resp'.status = 400 /\ ventas' = ventas /\ seq' = seq)]_vars

\* a submission with an empty cart array was refused after a sale had been stored
C6_Testigo ==
    /\ peticion.ruta = "POST ventas"
    /\ peticion.cuerpo.datos_carrito = Arreglo(<<>>)
    /\ resp.status = 400
    /\ ventas # {}

\* C7: every sale submission with a non-empty cart and a positive total creates
\* exactly one sale row, and the stored sales always have pairwise distinct,
\* non-empty order numbers.
C7_VentaValidaCreaUnaFila ==
    /\ [][(EsPeticion("POST ventas") /\ VentaValida(peticion'.cuerpo))
          => (/\ Cardinality(ventas') = Cardinality(ventas) + 1
              /\ ventas \subseteq ventas')]_vars
    /\ [](\A v, w \in ventas : v.numero_orden = w.numero_orden => v = w)

\* the request carried a token that passes verification now
TokenValido == autenticarToken(peticion'.cab).status = 200

\* C8: creating a product with only a name and a price succeeds and stores a
\* row with stock 0, status "ACTIVO" and featured false.
C8_CrearSoloNombrePrecio ==
    [][(/\ EsPeticion("POST admin/productos")
        /\ TokenValido
        /\ peticion'.cuerpo.campos = {"nombre", "precio"}
        /\ peticion'.cuerpo.nombre # ""
        /\ peticion'.cuerpo.precio > 0)
       => (/\ resp'.status = 201
           /\ \E q \in productos' \ productos :
                 /\ q.nombre = peticion'.cuerpo.nombre
                 /\ q.stock = 0
                 /\ q.estado = "ACTIVO"
                 /\ q.destacado = FALSE)]_vars

\* C9: updating an existing product with a request that supplies only a stock
\* value sets the stock to that value, leaves name, price and description as
\* they were, and refreshes the modification timestamp.
C9_SoloStockActualiza ==
    [][(/\ EsPeticion("PUT admin/productos/:id")
        /\ TokenValido
        /\ peticion'.cuerpo.campos = {"stock"})
       => \A fila \in productos :
             fila.id = peticion'.id
             => \E q \in productos' :
                   /\ q.id = fila.id
                   /\ q.stock = peticion'.cuerpo.stock
                   /\ q.nombre = fila.nombre
                   /\ q.precio = fila.precio
                   /\ q.descripcion = fila.descripcion
                   /\ q.fecha_actualizacion = reloj']_vars

\* C10: in a product update, every field the request omits keeps the value
\* stored before the update, whichever the field: status, category,
\* subcategory, featured flag and image included.
C10_CamposOmitidosSeConservan ==
    [][EsPeticion("PUT admin/productos/:id")
       => \A fila \in productos :
             fila.id = peticion'.id
             => \E q \in productos' :
                   /\ q.id = fila.id
                   /\ \A campo \in CamposProducto \ peticion'.cuerpo.campos :
                         q[campo] = fila[campo]]_vars

\* an update carrying name, price and description alone went through on a
\* product stored with a category, a subcategory, an image, a state other than
\* the default and the featured flag set, at a later time than its creation
C10_Testigo ==
    /\ peticion.ruta = "PUT admin/productos/:id"
    /\ peticion.cuerpo = NombrePrecioDescripcion
    /\ resp.status = 200
    /\ \E q \in productos :
          /\ q.id = peticion.id
          /\ q.nombre = "Nuevo"
          /\ q.categoria_id = 1
          /\ q.subcategoria_id = 1
          /\ q.imagen_base64 = "img1"
          /\ q.estado = "INACTIVO"
          /\ q.destacado
          /\ q.stock = 3
          /\ q.fecha_actualizacion = PasoReloj

\* every route under /api/admin/ but the login
RutasAdmin == {"GET admin/verificar"} \cup RutasAdminLectura \cup RutasAdminEscritura

\* C4: a request to an admin route other than login that carries no token, or a
\* token that fails verification, never reaches the handler: no query is
\* issued and no table changes.  Stored data is read or changed by such a route
\* only under a token that passed verification.
C4_AdminSoloConToken ==
    [][(reloj' = reloj /\ peticion'.ruta \in RutasAdmin)
       => (/\ ~TokenValido => (consultas' = 0 /\ ~manejador' /\ UNCHANGED tablas)
           /\ (consultas' > 0 \/ ~UNCHANGED tablas) => TokenValido)]_vars

\* a customer deletion arrived under a token signed with another key while the
\* customer was stored: it was answered 403 and the customer is still there
C4_Testigo ==
    /\ peticion.ruta = "DELETE admin/clientes/:id"
    /\ peticion.cab = Portador(TokenAjeno)
    /\ resp.status = 403
    /\ consultas = 0
    /\ ~manejador
    /\ \E c \in clientes : c.id = peticion.id

\* a category was deleted by this step
CategoriaBorrada ==
    /\ EsPeticion("DELETE admin/categorias/:id")
    /\ resp'.status = 200

\* C11 as stated: deleting a category deletes no product; every product that
\* referenced it is still stored with its category reference null and its
\* other fields unchanged, and the products of other categories are unchanged.
C11_SoloReferenciaCategoria ==
    [][CategoriaBorrada
       => /\ Cardinality(productos') = Cardinality(productos)
          /\ \A p \in productos :
                IF p.categoria_id = peticion'.id
                THEN [p EXCEPT !.categoria_id = NULL] \in productos'
                ELSE p \in productos']_vars

\* C11: deleting a category deletes no product; every product is still stored,
\* with its category reference null if it referenced the category, with its
\* subcategory reference null if it referenced a subcategory of the category
\* (whatever the product's own category), and with every other field unchanged.
C11_ReferenciasAnuladas ==
    [][CategoriaBorrada
       => /\ Cardinality(productos') = Cardinality(productos)
          /\ \A p \in productos :
                [p EXCEPT
                   !.categoria_id = IF @ = peticion'.id THEN NULL ELSE @,
                   !.subcategoria_id =
                      IF \E sc \in subcategorias :
                            sc.id = p.subcategoria_id /\ sc.categoria_id = peticion'.id
                      THEN NULL ELSE @] \in productos']_vars

\* category 1 was deleted while it owned the product "Radio" under its
\* subcategory, and a product of category 2 was stored too: both are still there
C11_Testigo ==
    /\ peticion.ruta = "DELETE admin/categorias/:id"
    /\ peticion.id = 1
    /\ resp.status = 200
    /\ \E q \in productos :
          q.nombre = "Radio" /\ q.categoria_id = NULL /\ q.subcategoria_id = NULL /\ q.stock = 3
    /\ \E q \in productos : q.categoria_id = 2

\* C12: after a category is deleted no subcategory that belonged to it remains
\* stored, and the subcategories of every other category are unchanged.
C12_SubcategoriasEnCascada ==
    [][CategoriaBorrada
       => subcategorias' = {sc \in subcategorias : sc.categoria_id # peticion'.id}]_vars

\* a category was deleted that owned a subcategory, while another category
\* keeps its own
C12_Testigo ==
    /\ peticion.ruta = "DELETE admin/categorias/:id"
    /\ resp.status = 200
    /\ seq.subcategorias = 2
    /\ Cardinality(subcategorias) = 1
    /\ \A sc \in subcategorias : sc.categoria_id # peticion.id /\ sc.categoria_id \in Ids(categorias)

\* C13: after every successful startup initialization, whatever administrator
\* rows were stored before, exactly one administrator row carries the
\* configured username, and its stored hash verifies against the configured
\* password.
C13_UnAdministradorConfigurado ==
    [][EsPeticion("inicio")
       => /\ Cardinality({a \in administradores' : a.usuario = peticion'.usuario}) = 1
          /\ \A a \in administradores' :
                a.usuario = peticion'.usuario
                => bcryptCompare(peticion'.contrasena, a.contrasena_hash)]_vars

\* the server restarted under a new password for the same username while a row
\* of another username was stored: the old row of that username is gone
C13_Testigo ==
    /\ peticion.ruta = "inicio"
    /\ peticion.usuario = ADMIN_USERNAME
    /\ peticion.contrasena = "nueva"
    /\ Cardinality(administradores) = 2
    /\ \E a \in administradores : a.usuario = "root"
    /\ \A a \in administradores : a.id # 1

\* C14: token validity depends only on signature and expiry: whatever has
\* happened since it was issued (its customer deleted or deactivated, rows
\* deleted, the server restarted and the administrator recreated), the
\* middleware lets every issued, unexpired token through.
C14_TokenSinRevocacion ==
    \A t \in tokens : reloj < t.exp => autenticarToken(Portador(t)).status = 200

\* a customer's token and an administrator's token are both unexpired, the
\* customer has been deleted and the administrator row recreated under a new id
C14_Testigo ==
    /\ \E t \in tokens : t.rol = "cliente" /\ reloj < t.exp
                         /\ \A c \in clientes : c.id # t.idUsuario
    /\ \E t \in tokens : t.rol = "admin" /\ reloj < t.exp
                         /\ \A a \in administradores : a.id # t.idUsuario
    /\ seq.clientes > 0


\* a product taken out of the catalogue, however the variant spells the state
Inactivo(p) == Minusculas(p.estado) \in {"inactivo", "inactive"}

\* C15: an inactive product is in no answer of the public list, the public
\* get-by-id answers 404 for it, and the admin get-by-id returns it.
C15_InactivoOculto ==
    [][/\ EsPeticion("GET productos")
          => \A i \in DOMAIN resp'.filas, p \in productos :
                p.id = resp'.filas[i] => ~Inactivo(p)
       /\ \A p \in productos :
             (EsPeticion("GET productos/:id") /\ peticion'.id = p.id /\ Inactivo(p))
                => resp'.status = 404
       /\ \A p \in productos :
             (/\ EsPeticion("GET admin/productos/:id")
              /\ peticion'.id = p.id
              /\ TokenValido
              /\ Inactivo(p))
                => (resp'.status = 200 /\ resp'.filas = <<p.id>>)]_vars

\* C16: two registrations of one username may both pass the check and reach
\* the insert; the insert that comes second fails on the UNIQUE constraint and
\* answers 500, so no two rows ever share a username or an e-mail.
C16_UnicoBajoConcurrencia ==
    [][/\ (/\ EsPeticion("POST clientes/registro")
           /\ peticion'.fase = "inserta"
           /\ \E c \in clientes : \/ c.usuario = peticion'.cuerpo.usuario
                                   \/ c.correo = peticion'.cuerpo.correo)
          => (resp'.status = 500 /\ clientes' = clientes)
       /\ \A c1, c2 \in clientes' :
             (c1.usuario = c2.usuario \/ c1.correo = c2.correo) => c1 = c2]_vars

\* an insert was refused for a username that another registration, which
\* passed the check at the same time, had stored in between
C16_Testigo ==
    /\ peticion.ruta = "POST clientes/registro"
    /\ peticion.fase = "inserta"
    /\ resp.status = 500
    /\ \E c \in clientes : c.usuario = peticion.cuerpo.usuario
    /\ Cardinality(clientes) = 1

\* C17: a handler whose database call fails answers 500, makes that one call
\* and no other, and changes no table.
C17_FallaResponde500 ==
    [][(/\ reloj' = reloj
        /\ "falla" \in DOMAIN peticion'
        /\ manejador')
          => (/\ resp'.status = 500
              /\ consultas' = 1
              /\ UNCHANGED tablas)]_vars

RutasConPerfil ==
    {"POST clientes/registro", "POST clientes/login", "POST admin/login",
     "GET admin/clientes", "GET admin/clientes/:id", "PUT admin/clientes/:id"}

\* C18: no answer of the registration, of the two logins or of the admin
\* customer list, detail and update carries the stored password hash.
C18_SinHashEnRespuesta ==
    [][(reloj' = reloj /\ peticion'.ruta \in RutasConPerfil)
          => "contrasena_hash" \notin resp'.campos]_vars

\* a customer login that sent the profile of the row it read
C18_Testigo ==
    /\ peticion.ruta = "POST clientes/login"
    /\ resp.status = 200
    /\ {"id", "usuario", "nombre", "correo"} \subseteq resp.campos
    /\ \E c \in clientes : c.id = resp.id /\ c.contrasena_hash = bcryptHash("p1")

\* the active products that pass the filters of the query: the category, and
\* the term as a substring of the name or of the description, whatever the case
Esperados(q) ==
    {p \in productos :
        /\ p.estado = "ACTIVO"
        /\ q.categoria_id # 0 => p.categoria_id = q.categoria_id
        /\ q.buscar # "" => (ILike(p.nombre, q.buscar) \/ ILike(p.descripcion, q.buscar))}

\* the limit the query asks for, or the default of the route
LimitePedido(q) == IF q.limite.tipo = "number" THEN q.limite.n ELSE LimitePorDefecto

\* filas is made of the newest of esperados, newest first, up to limite of them
ListaExacta(filas, esperados, limite) ==
    /\ Len(filas) = (IF limite < Cardinality(esperados) THEN limite
                     ELSE Cardinality(esperados))
    /\ \A i \in DOMAIN filas : filas[i] \in Ids(esperados)
    /\ \A i, j \in DOMAIN filas : i # j => filas[i] # filas[j]
    /\ \A i, j \in DOMAIN filas :
          i < j => FechaDe(esperados, filas[i]) >= FechaDe(esperados, filas[j])
    /\ \A p \in esperados, i \in DOMAIN filas :
          (\A j \in DOMAIN filas : filas[j] # p.id)
             => p.fecha_creacion <= FechaDe(esperados, filas[i])

\* C19: the public list answers with exactly the active products that pass
\* the category and the search filters (name or description, any case),
\* newest first, cut at the limit asked for.
C19_ListaExacta ==
    [][(/\ EsPeticion("GET productos")
        /\ ~peticion'.consulta.destacado
        /\ peticion'.consulta.limite.tipo \in {"undefined", "number"}
        /\ LimitePedido(peticion'.consulta) >= 0)
          => (/\ resp'.status = 200
              /\ ListaExacta(resp'.filas, Esperados(peticion'.consulta),
                             LimitePedido(peticion'.consulta)))]_vars

\* C20: a customer login whose identifier is the username or the e-mail of a
\* stored customer and whose password matches the stored hash answers 200 with
\* a token that the middleware accepts, and stamps the customer's last login.
C20_LoginPorUsuarioOCorreo ==
    [][\A c \in clientes :
          (/\ EsPeticion("POST clientes/login")
           /\ peticion'.cuerpo.usuario \in {c.usuario, c.correo}
           /\ bcryptCompare(peticion'.cuerpo.contrasena, c.contrasena_hash))
             => (/\ resp'.status = 200
                 /\ resp'.token \in tokens'
                 /\ resp'.token.idUsuario = c.id
                 /\ jwtVerify(resp'.token, JWT_SECRET, reloj')
                 /\ \E d \in clientes' : d.id = c.id /\ d.ultima_sesion = reloj')]_vars

\* C21: a product update that supplies stock 0 leaves the product with stock
\* 0, and one that supplies the empty description leaves it with the empty
\* description.
C21_CeroYVacioSobrescriben ==
    [][(/\ EsPeticion("PUT admin/productos/:id")
        /\ TokenValido)
       => \A fila \in productos :
             fila.id = peticion'.id
             => \E q \in productos' :
                   /\ q.id = fila.id
                   /\ (Dado(peticion'.cuerpo, "stock") /\ peticion'.cuerpo.stock = 0)
                         => q.stock = 0
                   /\ (Dado(peticion'.cuerpo, "descripcion")
                       /\ peticion'.cuerpo.descripcion = "")
                         => q.descripcion = ""]_vars

\* C22: an update may write any non-empty string as the status of a sale or
\* of a product, whatever the status before, and the status stored afterwards
\* is the string supplied.
C22_CualquierEstadoSeEscribe ==
    [][/\ (/\ EsPeticion("PUT admin/ventas/:id")
           /\ TokenValido
           /\ peticion'.estado # "")
          => \A v \in ventas :
                v.id = peticion'.id
                => \E w \in ventas' : w.id = v.id /\ w.estado = peticion'.estado
       /\ (/\ EsPeticion("PUT admin/productos/:id")
           /\ TokenValido
           /\ Dado(peticion'.cuerpo, "estado")
           /\ peticion'.cuerpo.estado # "")
          => \A fila \in productos :
                fila.id = peticion'.id
                => \E q \in productos' :
                      q.id = fila.id /\ q.estado = peticion'.cuerpo.estado]_vars

\* C23: the admin sale update changes the status of the addressed sale and
\* nothing else: the other fields of that sale, the other sales and the other
\* tables stay; an unknown id is answered 404 and a missing status 400, both
\* without any change.
C23_SoloEstadoDeLaVenta ==
    [][(EsPeticion("PUT admin/ventas/:id") /\ TokenValido)
          => /\ UNCHANGED <<categorias, subcategorias, productos, administradores,
                            clientes, seq>>
             /\ IF peticion'.estado = ""
                THEN resp'.status = 400 /\ ventas' = ventas
                ELSE IF peticion'.id \notin Ids(ventas)
                THEN resp'.status = 404 /\ ventas' = ventas
                ELSE /\ resp'.status = 200
                     /\ Cardinality(ventas') = Cardinality(ventas)
                     /\ \A v \in ventas :
                           IF v.id = peticion'.id
                           THEN [v EXCEPT !.estado = peticion'.estado] \in ventas'
                           ELSE v \in ventas']_vars

\* the first of two sales was given another status and the second was not
C23_Testigo ==
    /\ peticion.ruta = "PUT admin/ventas/:id"
    /\ resp.status = 200
    /\ peticion.id = 1
    /\ \E v, w \in ventas :
          /\ v.id = 1 /\ v.estado = "enviado" /\ v.total = 25
          /\ w.id = 2 /\ w.estado = "pendiente"

\* C24: creating a sale changes no product row: every product, those named
\* in the cart included, has the stock it had.
C24_VentaNoTocaProductos ==
    [][EsPeticion("POST ventas") => productos' = productos]_vars

\* a sale naming product 1 was stored while product 1 had 3 in stock
C24_Testigo ==
    /\ peticion.ruta = "POST ventas"
    /\ resp.status = 201
    /\ \E p \in productos : p.id = 1 /\ p.stock = 3
    /\ \E v \in ventas : v.id = resp.id /\ v.datos_carrito[1].product_id = 1

\* C25: an unexpired administrator token issued before a restart is refused
\* by the verify endpoint after it (401): the restart has stored the
\* administrator of that username again, under a newer id than the token's.
C25_ReinicioInvalidaSesion ==
    [][(/\ EsPeticion("GET admin/verificar")
        /\ TokenValido
        /\ peticion'.cab.token.rol = "admin"
        /\ \E a \in administradores :
              /\ a.usuario = peticion'.cab.token.usuario
              /\ a.id > peticion'.cab.token.idUsuario)
          => resp'.status = 401]_vars

\* the roles the customer login and the registration sign into a token
RolesDeCliente == {"cliente", "client"}

\* C26: admission to the admin routes reads the validity of the token and
\* never its role: a request to any admin route under an unexpired token
\* issued to a customer reaches the handler, with that token as req.usuario,
\* and is not answered by the middleware.
C26_ClienteAdmitidoComoAdmin ==
    [][(/\ reloj' = reloj
        /\ peticion'.ruta \in RutasAdmin
        /\ peticion'.cab.tipo = "token"
        /\ peticion'.cab.token \in tokens
        /\ jwtVerify(peticion'.cab.token, JWT_SECRET, reloj)
        /\ peticion'.cab.token.rol \in RolesDeCliente)
          => (/\ manejador'
              /\ reqUsuario' = peticion'.cab.token
              /\ resp'.status # 403)]_vars

\* a product was deleted under the token of a customer
C26_Testigo ==
    /\ peticion.ruta = "DELETE admin/productos/:id"
    /\ peticion.cab.token.rol \in RolesDeCliente
    /\ resp.status = 200
    /\ seq.productos = 1
    /\ productos = {}

\* C27: the server listens only after the database initialization has
\* completed successfully; when the initialization fails the process exits
\* and never listens.
C27_EscuchaSoloInicializada ==
    proceso.fase = "escuchando" => proceso.bdInicializada

RutasDeLogin == {"POST clientes/login", "POST admin/login"}

\* the stored row a token names, among the customers or the administrators
FilasDelToken(t) ==
    {f \in IF t.rol = "admin" THEN administradores' ELSE clientes' : f.id = t.idUsuario}

\* C28: a token is issued only by a login whose password matches the hash
\* stored for the account, or by a registration that stored its customer; a
\* login that fails issues no token and changes no table, the last-login
\* timestamp included.
C28_TokenSoloTrasExito ==
    [][/\ (reloj' = reloj /\ (resp'.token # TokenNulo \/ tokens' # tokens))
          => (/\ resp'.token \in tokens'
              /\ \E f \in FilasDelToken(resp'.token) : f.usuario = resp'.token.usuario
              /\ \/ /\ peticion'.ruta \in RutasDeLogin
                    /\ resp'.status = 200
                    /\ \A f \in FilasDelToken(resp'.token) :
                          f.contrasena_hash = bcryptHash(peticion'.cuerpo.contrasena)
                 \/ /\ peticion'.ruta = "POST clientes/registro"
                    /\ resp'.status = 201
                    /\ \E c \in clientes' \ clientes : c.id = resp'.token.idUsuario)
       /\ (reloj' = reloj /\ peticion'.ruta \in RutasDeLogin /\ resp'.status # 200)
          => (/\ resp'.token = TokenNulo
              /\ tokens' = tokens
              /\ UNCHANGED tablas)]_vars

\* a deactivated customer sent the right password and was refused: no token,
\* no last-login timestamp
C28_Testigo ==
    /\ peticion.ruta = "POST clientes/login"
    /\ resp.status = 401
    /\ resp.token = TokenNulo
    /\ \E c \in clientes :
          /\ c.usuario = peticion.cuerpo.usuario
          /\ ~c.activo
          /\ c.contrasena_hash = bcryptHash(peticion.cuerpo.contrasena)
          /\ c.ultima_sesion = NULL

\* C29: in every reachable state each product's category reference is null
\* or names a stored category, each product's subcategory reference is null
\* or names a stored subcategory, and each subcategory names a stored category.
C29_ReferenciasValidas ==
    /\ \A p \in productos :
          /\ p.categoria_id = NULL \/ p.categoria_id \in Ids(categorias)
          /\ p.subcategoria_id = NULL \/ p.subcategoria_id \in Ids(subcategorias)
    /\ \A sc \in subcategorias : sc.categoria_id \in Ids(categorias)

\* category 1 was deleted while a product of category 2 sat under its only
\* subcategory: the subcategory is gone and the product names none
C29_Testigo ==
    /\ peticion.ruta = "DELETE admin/categorias/:id"
    /\ peticion.id = 1
    /\ resp.status = 200
    /\ seq.subcategorias = 1
    /\ subcategorias = {}
    /\ \E p \in productos : p.categoria_id = 2 /\ p.subcategoria_id = NULL

\* C30: a product update whose body supplies none of the updatable fields is
\* answered 400 and leaves the product, its status and its modification
\* timestamp included, unchanged.
C30_SinCamposEs400 ==
    [][(/\ EsPeticion("PUT admin/productos/:id")
        /\ TokenValido
        /\ peticion'.cuerpo.campos = {}
        /\ \E p \in productos : p.id = peticion'.id)
       => (resp'.status = 400 /\ productos' = productos)]_vars

====
